---- MODULE Spec2Model ----
(***************************************************************************)
(* State-synchronisation core of the Tasmota HomeKit bridge: the plug      *)
(* manager (command loop, delta loop, status fetch, liveness supervisor),  *)
(* the HAP adapter and the web adapter, connected by the event bus and the *)
(* Command channel.                                                        *)
(*                                                                         *)
(* Time is counted in units of 30 s (the ticker period); 0 is Go's zero    *)
(* time.Time, the program starts at time 1.                                *)
(***************************************************************************)
EXTENDS Integers, Sequences, FiniteSets, TLC

\* ---------------------------------------------------------------- bounds
MaxInputs == 2
SupMaxInputs == 1
MaxTime == 6
MaxMetric == 1
ConnMaxInputs == 3
SSEMaxInputs == 6
HookMaxInputs == 2
MetricsMaxInputs == 3
CancelMaxInputs == 1
CancelMaxTime == 2
MaxFilePlugs == 2
HapMaxPlugs == 3
HapMaxRuns == 2
CopyMaxInputs == 2
CopyMaxReads == 2

\* ------------------------------------------------------ program constants
CommandCapacity == 10
StaleAfter == 1
DisconnectedAfter == 2
InitialDelay == 2
ReconfigureAfter == 4
TickSeconds == 30
SSECapacity == 10
MinPort == 1
MaxPort == 65535
PinLength == 8
DefaultHAPPort == 8080
DefaultWebPort == 8081
DefaultMQTTPort == 1883

\* ---------------------------------------------------------- configuration
\* p1 is served to HomeKit and the web, p2 sets homekit and web to false.
Plugs == {"p1", "p2"}
UnknownPlug == "ghost"
HomeKitPlugs == {"p1"}
WebPlugs == {"p1"}

\* No state copy held, no state cached.
None == [ plugID |-> "none" ]

\* No plug being handled.
NoPlug == "none"

\* The browsers that may hold an SSE connection.
Clients == {"c1", "c2"}

\* No toggle answered yet.
NoReply == [ plugID |-> "none", status |-> 0 ]

\* The hook has not been called.
NoMessage == [ prefix |-> "none" ]

\* Label values of command_total: what the bus events carry and what the
\* collector substitutes.
SourceLabels == {"homekit", "web", "", "unknown"}

PlugLabels == Plugs \cup {"", "unknown"}

TypeLabels == {"set_power", "", "unknown"}

LabelSets == SourceLabels \X PlugLabels \X TypeLabels

\* The tasks of the lock programs: the command loop, the delta loop, the
\* startup status fetch, the supervisor, the web adapter's loop, an SSE
\* handler and a toggle handler.
\* Toggles and HomeKit writes issued against a saturated Command channel.
BlockMaxInputs == 12

\* Requests for a bus client in one run.
BusMaxRequests == 3

\* Inputs and clock readings for the history of last_seen.
SeenMaxInputs == 3

SeenMaxTime == 2

\* Status fetches that feed the web adapter while SSE channels are closed.
CloseMaxInputs == 2

\* Toggles that produce the events an SSE client is sent.
OrderMaxInputs == 2

LockTasks == {"command", "delta", "fetch", "supervisor", "web", "sse", "toggle"}

\* LoadConfig has not been called.
NoFile == [ kind |-> "none" ]

\* Validate has not been called.
NoEnv == [ pinLen |-> 0 ]

\* No result yet.
NoResult == [ ok |-> FALSE, err |-> "none" ]

VARIABLES
    now,              \* wall clock
    states,           \* Manager.states
    ver,              \* per plug: number of mutations applied to the store
    commands,         \* the Command channel
    pmQueue,          \* Manager.stateSubscriber queue (StateChangedEvent)
    hapQueue,         \* HAPManager.stateSubscriber queue (StateChangedEvent)
    webQueue,         \* WebServer.stateSubscriber queue (StateUpdateEvent)
    hapOn,            \* On characteristic of each accessory
    webState,         \* WebServer.currentState
    cmdPc, cmdCtx,    \* position of ProcessCommands / SetPower, its stateCopy
    dlPc, dlCtx,      \* position of ProcessStateEvents, its stateCopy
    startupPending,   \* plugs whose one-shot startup GetStatus has not run
    errorCount,       \* ErrorEvents published, per plug id
    published,        \* per plug: the StateUpdateEvents published, in order
    lastTouch,        \* per plug: the last operation started on it
    acked,            \* per plug: some SetPower returned success
    nInputs,          \* commands, MQTT messages and startup fetches still to come
    supPc, supTodo, supCur,   \* position of MonitorConnections
    initialConfigTime, initialCheckDone,
    tickPending,      \* ticker.C holds a tick
    tickHadInitial,   \* the tick being handled ran the initial check
    tickCalls,        \* device calls and ErrorEvents of the tick being handled
    connSeen,         \* per plug: connection_state of the last StateUpdateEvent
                      \* published since an ingest delta was last merged
    busCommands,      \* the events.CommandEvents published on the bus, in order
    toggleReply,      \* HandleToggle's last response
    sseChan,          \* per SSE client: its clientChan
    ssePc,            \* per SSE client: position of its HandleSSE
    hookLast,         \* the last message the broker hook was called with
    metricsSeen,      \* CommandEvents the metrics collector has taken
    commandTotal,     \* tasmota_homekit_command_total, per label combination
    cancelled,        \* the root context is done
    exited,           \* the loops and SSE handlers that have returned
    loadIn, loadOut,  \* the file LoadConfig was called on, and what it returned
    envIn, envOut,    \* the environment Validate was called on, and its result
    hapPlugs,         \* the plugs NewHAPManager was called with
    hapRuns,          \* the accessory lists handed to hap.NewServer, one per run
    heap,             \* per plug: the bools its Config.HomeKit and .Web point to
    returned,         \* the values Plug() and Snapshot() have handed out
    lockPc,           \* per task: its position in its lock program
    lockHeld,         \* per task: the locks it holds, with their modes
    blockedSends,     \* the senders blocked on the full Command channel, in order
    busLog,           \* the requests for a bus client and their results, in order
    wsClosed,         \* WebServer.Close has run
    closes,           \* per SSE client: how often its channel has been closed
    sentOnClosed,     \* per SSE client: a send on its closed channel was executed
    sseSnap           \* per SSE client: the snapshot its handler has read

\* Inputs and results of the start-up functions and of the store's readers.
pureVars == << loadIn, loadOut, envIn, envOut, hapPlugs, hapRuns, heap, returned >>

\* Locks, blocked senders, bus clients and the closing of SSE channels.
lateVars == << lockPc, lockHeld, blockedSends, busLog, wsClosed, closes,
               sentOnClosed, sseSnap >>

extVars == << metricsSeen, commandTotal, cancelled, exited, pureVars, lateVars >>

vars == << now, states, ver, commands, pmQueue, hapQueue, webQueue, hapOn,
           webState, cmdPc, cmdCtx, dlPc, dlCtx, startupPending, errorCount,
           published, lastTouch, acked, nInputs, supPc, supTodo, supCur,
           initialConfigTime, initialCheckDone, tickPending, tickHadInitial,
           tickCalls, connSeen, busCommands, toggleReply, sseChan, ssePc,
           hookLast, extVars >>

syncVars == << states, ver, commands, pmQueue, hapQueue, webQueue, hapOn,
               webState, cmdPc, cmdCtx, dlPc, dlCtx, startupPending,
               errorCount, published, lastTouch, acked, nInputs >>

supVars == << supPc, supTodo, supCur, initialConfigTime, initialCheckDone,
              tickPending, tickHadInitial, tickCalls >>

busVars == << busCommands, toggleReply >>

sseVars == << sseChan, ssePc >>

ioVars == << busCommands, toggleReply, sseChan, ssePc, hookLast, extVars >>

auxVars == << connSeen, busCommands, toggleReply, sseChan, ssePc, hookLast, extVars >>

\* ------------------------------------------------------------------ State
ZeroState ==
    [ on |-> FALSE, power |-> 0, voltage |-> 0, current |-> 0, energy |-> 0,
      lastUpdated |-> 0, mqttConnected |-> FALSE, lastSeen |-> 0 ]

NewState(t) == [ ZeroState EXCEPT !.lastUpdated = t ]

\* A classification that still calls a plug connected at exactly 30 s.
connectionStatusInclusive(lastSeen, t) ==
    IF lastSeen = 0 THEN << "disconnected", "Never seen" >>
    ELSE IF t - lastSeen <= StaleAfter THEN << "connected", "Last seen" >>
    ELSE IF t - lastSeen < DisconnectedAfter THEN << "stale", "Last seen" >>
    ELSE << "disconnected", "Last seen" >>

\* connectionStatus(lastSeen), evaluated at time t
connectionStatus(lastSeen, t) ==
    IF lastSeen = 0 THEN << "disconnected", "Never seen" >>
    ELSE IF t - lastSeen < StaleAfter THEN << "connected", "Last seen" >>
    ELSE IF t - lastSeen < DisconnectedAfter THEN << "stale", "Last seen" >>
    ELSE << "disconnected", "Last seen" >>

\* The StateUpdateEvent publishStateUpdate builds; v is the number of the
\* mutation the state copy was taken after, cause the kind of the delta merged.
StateUpdate(source, p, st, t, v, cause) ==
    [ timestamp |-> t, source |-> source, plugID |-> p,
      on |-> st.on, power |-> st.power, voltage |-> st.voltage,
      current |-> st.current, energy |-> st.energy,
      mqttConnected |-> st.mqttConnected, lastSeen |-> st.lastSeen,
      lastUpdated |-> st.lastUpdated,
      connectionState |-> connectionStatus(st.lastSeen, t)[1],
      connectionNote |-> connectionStatus(st.lastSeen, t)[2],
      ver |-> v, cause |-> cause ]

InitWith(inputs) ==
    /\ now = 1
    /\ states = [p \in Plugs |-> NewState(1)]
    /\ ver = [p \in Plugs |-> 0]
    /\ commands = << >>
    /\ pmQueue = << >>
    /\ hapQueue = << >>
    /\ webQueue = << >>
    /\ hapOn = [p \in HomeKitPlugs |-> FALSE]
    /\ webState = [p \in Plugs |-> None]
    /\ cmdPc = "idle"
    /\ cmdCtx = None
    /\ dlPc = "idle"
    /\ dlCtx = None
    /\ startupPending = Plugs
    /\ errorCount = [p \in Plugs \cup {UnknownPlug} |-> 0]
    /\ published = [p \in Plugs |-> << >>]
    /\ lastTouch = [p \in Plugs |-> [kind |-> "none", on |-> FALSE, afterAck |-> FALSE]]
    /\ acked = [p \in Plugs |-> FALSE]
    /\ nInputs = inputs
    /\ supPc = "idle"
    /\ supTodo = {}
    /\ supCur = NoPlug
    /\ initialConfigTime = 1
    /\ initialCheckDone = FALSE
    /\ tickPending = FALSE
    /\ tickHadInitial = FALSE
    /\ tickCalls = << >>
    /\ connSeen = [p \in Plugs |-> "none"]
    /\ busCommands = << >>
    /\ toggleReply = NoReply
    /\ sseChan = [c \in Clients |-> << >>]
    /\ ssePc = [c \in Clients |-> "off"]
    /\ hookLast = NoMessage
    /\ metricsSeen = 0
    /\ commandTotal = [l \in LabelSets |-> 0]
    /\ cancelled = FALSE
    /\ exited = {}
    /\ loadIn = NoFile
    /\ loadOut = NoResult
    /\ envIn = NoEnv
    /\ envOut = NoResult
    /\ hapPlugs = << >>
    /\ hapRuns = << >>
    /\ heap = [p \in Plugs |-> [homekit |-> p \in HomeKitPlugs, web |-> p \in WebPlugs]]
    /\ returned = << >>
    /\ lockPc = [t \in LockTasks |-> 1]
    /\ lockHeld = [t \in LockTasks |-> {}]
    /\ blockedSends = << >>
    /\ busLog = << >>
    /\ wsClosed = FALSE
    /\ closes = [c \in Clients |-> 0]
    /\ sentOnClosed = [c \in Clients |-> FALSE]
    /\ sseSnap = [c \in Clients |-> << >>]

Init == InitWith(MaxInputs)

\* -------------------------------------------------------------- event bus
\* Publish of a StateChangedEvent: appended to the queue of every subscriber
\* of that type (the manager's delta loop and the HAP adapter).
StateChanged(p, st, carried, cause) ==
    [ plugID |-> p, state |-> st, carried |-> carried, cause |-> cause ]

\* ----------------------------------------------------------- device HTTP
Resp(http, json, status, statusPower, power) ==
    [ http |-> http, json |-> json, status |-> status,
      statusPower |-> statusPower, power |-> power ]

\* What a device may answer to "Status 0".
Responses ==
    { Resp(FALSE, FALSE, "missing", "missing", "missing"),  \* transport error
      Resp(TRUE, FALSE, "missing", "missing", "missing"),   \* body is not JSON
      Resp(TRUE, TRUE, "object", "ON", "missing"),          \* {"Status":{"Power":"ON"}}
      Resp(TRUE, TRUE, "object", "OFF", "missing"),         \* {"Status":{"Power":"OFF"}}
      Resp(TRUE, TRUE, "missing", "missing", "ON"),         \* {"POWER":"ON"}
      Resp(TRUE, TRUE, "missing", "missing", "OFF"),        \* {"POWER":"OFF"}
      Resp(TRUE, TRUE, "object", "wrongtype", "ON"),        \* {"Status":{"Power":1},"POWER":"ON"}
      Resp(TRUE, TRUE, "object", "wrongtype", "missing") }  \* {"Status":{"Power":1}}

\* json.Unmarshal(response, &statusResp): fails on invalid JSON and on a value
\* of the wrong JSON type; a missing key leaves the field "".
NestedOK(r) ==
    /\ r.json
    /\ r.status # "wrongtype"
    /\ ~(r.status = "object" /\ r.statusPower = "wrongtype")

NestedPower(r) ==
    IF r.status = "object" /\ r.statusPower \in {"ON", "OFF"} THEN r.statusPower ELSE ""

\* json.Unmarshal(response, &altResp)
AltOK(r) == r.json /\ r.power # "wrongtype"

AltPower(r) == IF r.power \in {"ON", "OFF"} THEN r.power ELSE ""

\* "error": GetStatus returns an error; "nested": the first Unmarshal succeeded;
\* "alt": it failed and the second succeeded.
StatusOutcome(r) ==
    IF ~r.http THEN "error"
    ELSE IF NestedOK(r) THEN "nested"
    ELSE IF AltOK(r) THEN "alt"
    ELSE "error"

\* Manager.GetStatus from the moment the response is in: the store is locked,
\* the state mutated and, in the nested form only, the update published before
\* the lock is released.
GetStatus(p, r) ==
    LET nst == [states[p] EXCEPT !.on = (NestedPower(r) = "ON"), !.lastUpdated = now]
        ast == [states[p] EXCEPT !.on = (AltPower(r) = "ON"), !.lastUpdated = now]
        u   == StateUpdate("status", p, nst, now, ver[p] + 1, "status")
    IN  /\ lastTouch' = [lastTouch EXCEPT ![p] = [kind |-> "none", on |-> FALSE, afterAck |-> FALSE]]
        /\ CASE StatusOutcome(r) = "nested" ->
                  /\ states' = [states EXCEPT ![p] = nst]
                  /\ ver' = [ver EXCEPT ![p] = @ + 1]
                  /\ webQueue' = Append(webQueue, u)
                  /\ published' = [published EXCEPT ![p] = Append(@, u)]
                  /\ connSeen' = [connSeen EXCEPT ![p] = u.connectionState]
             [] StatusOutcome(r) = "alt" ->
                  /\ states' = [states EXCEPT ![p] = ast]
                  /\ ver' = [ver EXCEPT ![p] = @ + 1]
                  /\ UNCHANGED << webQueue, published, connSeen >>
             [] OTHER ->
                  UNCHANGED << states, ver, webQueue, published, connSeen >>

\* One-shot status fetch of Main, one goroutine per plug.
StartupFetch(p) ==
    /\ p \in startupPending
    /\ nInputs > 0
    /\ nInputs' = nInputs - 1
    /\ startupPending' = startupPending \ {p}
    /\ \E r \in Responses : GetStatus(p, r)
    /\ UNCHANGED << now, commands, pmQueue, hapQueue, hapOn, webState, cmdPc,
                    cmdCtx, dlPc, dlCtx, errorCount, acked >>
    /\ UNCHANGED supVars
    /\ UNCHANGED ioVars

\* ------------------------------------------------------- command producers
CommandEvent(p, on) == [ plugID |-> p, on |-> on ]

\* A bus event that reports the opposite of the value put on the channel.
BusCommandInverted(source, p, on) ==
    [ source |-> source, plugID |-> p, commandType |-> "set_power", on |-> ~on ]

\* The events.CommandEvent publishCommand puts on the bus.
BusCommand(source, p, on) ==
    [ source |-> source, plugID |-> p, commandType |-> "set_power", on |-> on ]

Untouched == [kind |-> "none", on |-> FALSE, afterAck |-> FALSE]

\* The OnValueRemoteUpdate callback of NewHAPManager: the HAP library has
\* stored the written value in the characteristic before it calls back.
HomeKitRemoteWrite(p, on) ==
    /\ p \in HomeKitPlugs
    /\ nInputs > 0
    /\ Len(commands) < CommandCapacity
    /\ hapOn' = [hapOn EXCEPT ![p] = on]
    /\ commands' = Append(commands, CommandEvent(p, on))
    /\ busCommands' = Append(busCommands, BusCommand("homekit", p, on))
    /\ nInputs' = nInputs - 1
    /\ lastTouch' = [lastTouch EXCEPT ![p] = Untouched]
    /\ UNCHANGED << now, states, ver, pmQueue, hapQueue, webQueue, webState,
                    cmdPc, cmdCtx, dlPc, dlCtx, startupPending, errorCount,
                    published, acked >>
    /\ UNCHANGED supVars
    /\ UNCHANGED << connSeen, toggleReply, sseChan, ssePc, hookLast, extVars >>

\* WebServer.HandleToggle for a known, web-enabled plug.
WebToggle(p, on) ==
    /\ p \in WebPlugs
    /\ nInputs > 0
    /\ Len(commands) < CommandCapacity
    /\ commands' = Append(commands, CommandEvent(p, on))
    /\ busCommands' = Append(busCommands, BusCommand("web", p, on))
    /\ toggleReply' = [plugID |-> p, status |-> 303]
    /\ nInputs' = nInputs - 1
    /\ lastTouch' = [lastTouch EXCEPT ![p] = Untouched]
    /\ UNCHANGED << now, states, ver, pmQueue, hapQueue, webQueue, hapOn,
                    webState, cmdPc, cmdCtx, dlPc, dlCtx, startupPending,
                    errorCount, published, acked >>
    /\ UNCHANGED supVars
    /\ UNCHANGED << connSeen, sseChan, ssePc, hookLast, extVars >>

\* A toggle handler that skips the existence and web-enabled checks.
HandleToggleUnchecked(p) ==
    /\ p \notin WebPlugs
    /\ nInputs > 0
    /\ Len(commands) < CommandCapacity
    /\ commands' = Append(commands, CommandEvent(p, TRUE))
    /\ busCommands' = Append(busCommands, BusCommand("web", p, TRUE))
    /\ toggleReply' = [plugID |-> p, status |-> 404]
    /\ nInputs' = nInputs - 1
    /\ UNCHANGED << now, states, ver, pmQueue, hapQueue, webQueue, hapOn,
                    webState, cmdPc, cmdCtx, dlPc, dlCtx, startupPending,
                    errorCount, published, lastTouch, acked >>
    /\ UNCHANGED supVars
    /\ UNCHANGED << connSeen, sseChan, ssePc, hookLast, extVars >>

\* HandleToggle for a POST whose plug id is not configured or whose plug has
\* web disabled: the handler answers 404 and returns before the send.
HandleToggleRejected(p) ==
    /\ p \notin Plugs \/ p \notin WebPlugs
    /\ nInputs > 0
    /\ toggleReply' = [plugID |-> p, status |-> 404]
    /\ nInputs' = nInputs - 1
    /\ UNCHANGED << now, states, ver, commands, pmQueue, hapQueue, webQueue,
                    hapOn, webState, cmdPc, cmdCtx, dlPc, dlCtx, startupPending,
                    errorCount, published, lastTouch, acked >>
    /\ UNCHANGED supVars
    /\ UNCHANGED << connSeen, busCommands, sseChan, ssePc, hookLast, extVars >>

\* Any other holder of the Command channel (the channel is handed to
\* NewManager by its caller) sending a command for an id that is not configured.
ForeignCommand(on) ==
    /\ nInputs > 0
    /\ Len(commands) < CommandCapacity
    /\ commands' = Append(commands, CommandEvent(UnknownPlug, on))
    /\ nInputs' = nInputs - 1
    /\ UNCHANGED << now, states, ver, pmQueue, hapQueue, webQueue, hapOn,
                    webState, cmdPc, cmdCtx, dlPc, dlCtx, startupPending,
                    errorCount, published, lastTouch, acked >>
    /\ UNCHANGED supVars
    /\ UNCHANGED auxVars

\* ------------------------------------------------------------ command loop
cmdUnchanged ==
    /\ UNCHANGED << now, hapOn, webState, dlPc, dlCtx, startupPending, nInputs,
                    lastTouch >>
    /\ UNCHANGED supVars
    /\ UNCHANGED ioVars

\* ProcessCommands takes a command; SetPower finds no such plug and returns
\* the error, which ProcessCommands logs.
CmdUnknownPlug ==
    /\ cmdPc = "idle"
    /\ commands # << >>
    /\ Head(commands).plugID \notin Plugs
    /\ commands' = Tail(commands)
    /\ UNCHANGED << states, ver, pmQueue, hapQueue, webQueue, cmdPc, cmdCtx,
                    errorCount, published, acked >>
    /\ cmdUnchanged
    /\ UNCHANGED connSeen

\* A failure path that writes the commanded value although the device refused.
CmdFailWrites ==
    /\ cmdPc = "idle"
    /\ commands # << >>
    /\ Head(commands).plugID \in Plugs
    /\ commands' = Tail(commands)
    /\ errorCount' = [errorCount EXCEPT ![Head(commands).plugID] = @ + 1]
    /\ states' = [states EXCEPT ![Head(commands).plugID].on = Head(commands).on]
    /\ UNCHANGED << ver, pmQueue, hapQueue, webQueue, cmdPc, cmdCtx,
                    published, acked >>
    /\ cmdUnchanged
    /\ UNCHANGED connSeen

\* SetPower, the device call fails: ErrorEvent, return.
CmdFail ==
    /\ cmdPc = "idle"
    /\ commands # << >>
    /\ Head(commands).plugID \in Plugs
    /\ commands' = Tail(commands)
    /\ errorCount' = [errorCount EXCEPT ![Head(commands).plugID] = @ + 1]
    /\ UNCHANGED << states, ver, pmQueue, hapQueue, webQueue, cmdPc, cmdCtx,
                    published, acked >>
    /\ cmdUnchanged
    /\ UNCHANGED connSeen

\* A write that also counts the HTTP answer as MQTT liveness.
SetPowerStateSeen(st, on, t) ==
    [st EXCEPT !.on = on, !.lastUpdated = t, !.lastSeen = t, !.mqttConnected = TRUE]

\* The state SetPower writes under the lock.
SetPowerState(st, on, t) == [st EXCEPT !.on = on, !.lastUpdated = t]

\* SetPower, the device call succeeds: the state is written and copied under
\* the lock.
CmdSucceed ==
    /\ cmdPc = "idle"
    /\ commands # << >>
    /\ Head(commands).plugID \in Plugs
    /\ LET p  == Head(commands).plugID
           st == SetPowerState(states[p], Head(commands).on, now)
       IN  /\ states' = [states EXCEPT ![p] = st]
           /\ ver' = [ver EXCEPT ![p] = @ + 1]
           /\ cmdCtx' = [plugID |-> p, state |-> st, ver |-> ver[p] + 1]
    /\ commands' = Tail(commands)
    /\ cmdPc' = "pubChanged"
    /\ UNCHANGED << pmQueue, hapQueue, webQueue, errorCount, published, acked >>
    /\ cmdUnchanged
    /\ UNCHANGED connSeen

\* SetPower: statePublisher.Publish(StateChangedEvent{plugID, stateCopy})
CmdPublishChanged ==
    /\ cmdPc = "pubChanged"
    /\ LET e == StateChanged(cmdCtx.plugID, cmdCtx.state, {"all"}, "command")
       IN  /\ pmQueue' = Append(pmQueue, e)
           /\ hapQueue' = Append(hapQueue, e)
    /\ cmdPc' = "pubUpdate"
    /\ UNCHANGED << states, ver, commands, webQueue, cmdCtx, errorCount,
                    published, acked >>
    /\ cmdUnchanged
    /\ UNCHANGED connSeen

\* SetPower: publishStateUpdate("command", ...), return nil.
CmdPublishUpdate ==
    /\ cmdPc = "pubUpdate"
    /\ LET u == StateUpdate("command", cmdCtx.plugID, cmdCtx.state, now,
                            cmdCtx.ver, "command")
       IN  /\ webQueue' = Append(webQueue, u)
           /\ published' = [published EXCEPT ![cmdCtx.plugID] = Append(@, u)]
           /\ connSeen' = [connSeen EXCEPT ![cmdCtx.plugID] = u.connectionState]
    /\ acked' = [acked EXCEPT ![cmdCtx.plugID] = TRUE]
    /\ cmdPc' = "idle"
    /\ cmdCtx' = None
    /\ UNCHANGED << states, ver, commands, pmQueue, hapQueue, errorCount >>
    /\ cmdUnchanged

\* ------------------------------------------------------------ MQTT ingest
NoReading == [power |-> 0, voltage |-> 0, current |-> 0, energy |-> 0]

Readings ==
    { [power |-> m, voltage |-> m, current |-> m, energy |-> m] : m \in 1..MaxMetric }

\* The State of the delta the ingest publishes for a message received at t:
\* power is "ON", "OFF" or "" (no power state in the payload), reading the
\* ENERGY values or NoReading.
IngestDelta(t, power, reading) ==
    [ on |-> (power = "ON"),
      power |-> reading.power, voltage |-> reading.voltage,
      current |-> reading.current, energy |-> reading.energy,
      lastUpdated |-> IF power \in {"ON", "OFF"} THEN t ELSE 0,
      mqttConnected |-> TRUE,
      lastSeen |-> t ]

IngestCarried(power, reading) ==
    {"lastSeen"} \cup (IF power \in {"ON", "OFF"} THEN {"on"} ELSE {})
                 \cup (IF reading # NoReading THEN {"metrics"} ELSE {})

\* A command for p is in the channel or in SetPower.
CommandInFlight(p) ==
    \/ \E i \in 1..Len(commands) : commands[i].plugID = p
    \/ cmdPc # "idle" /\ cmdCtx.plugID = p

\* The hook's OnPublish for a message on tele/<x>/<p>/... or stat/<x>/<p>/...
MQTTPublish(p, power, reading) ==
    /\ nInputs > 0
    /\ nInputs' = nInputs - 1
    /\ LET e == StateChanged(p, IngestDelta(now, power, reading),
                             IngestCarried(power, reading), "mqtt")
       IN  /\ pmQueue' = Append(pmQueue, e)
           /\ hapQueue' = Append(hapQueue, e)
    /\ lastTouch' = [lastTouch EXCEPT ![p] =
                        IF power \in {"ON", "OFF"}
                        THEN [kind |-> "ingest", on |-> (power = "ON"),
                              afterAck |-> acked[p] /\ ~CommandInFlight(p)]
                        ELSE Untouched]
    /\ UNCHANGED << now, states, ver, commands, webQueue, hapOn, webState,
                    cmdPc, cmdCtx, dlPc, dlCtx, startupPending, errorCount,
                    published, acked >>
    /\ UNCHANGED supVars
    /\ UNCHANGED auxVars

\* --------------------------------------------------------- broker hook
\* First topic segments, segment counts, third segments and payloads the
\* broker may hand to the hook.
TopicPrefixes == {"tele", "stat", "cmnd"}

SegmentCounts == {2, 3, 4}

ThirdSegments == Plugs \cup {UnknownPlug, ""}

\* Not JSON; JSON without a power state; {"POWER":"ON"|"OFF"};
\* {"StatusSTS":{"POWER":"ON"|"OFF"}}; the same two shapes with another
\* non-empty string as the POWER value.
Payloads ==
    {"nonjson", "nopower", "POWER_ON", "POWER_OFF", "STS_ON", "STS_OFF",
     "POWER_OTHER", "STS_OTHER"}

\* The powerState the hook extracts from a payload ("" when there is none).
powerState(payload) ==
    CASE payload \in {"POWER_ON", "STS_ON"} -> "ON"
      [] payload \in {"POWER_OFF", "STS_OFF"} -> "OFF"
      [] payload \in {"POWER_OTHER", "STS_OTHER"} -> "OTHER"
      [] OTHER -> ""

\* The plugID the hook extracts from the topic ("" when it extracts none).
topicPlugID(prefix, nseg, third) ==
    IF prefix \in {"tele", "stat"} /\ nseg >= 3 THEN third ELSE ""

\* MQTTHook.OnPublish for a message whose topic has nseg segments, the first
\* being prefix and the third (if any) third.
OnPublish(prefix, nseg, third, payload) ==
    /\ nInputs > 0
    /\ nInputs' = nInputs - 1
    /\ nseg < 3 => third = ""
    /\ LET plugID == topicPlugID(prefix, nseg, third)
           emits  == /\ nseg >= 3
                     /\ plugID # ""
                     /\ payload # "nonjson"
                     /\ powerState(payload) # ""
                     /\ plugID \in Plugs
       IN  IF emits
           THEN LET st == [states[plugID] EXCEPT !.on = (powerState(payload) = "ON"),
                                                 !.lastUpdated = now]
                    e  == StateChanged(plugID, st, {"all"}, "mqtt")
                IN  /\ states' = [states EXCEPT ![plugID] = st]
                    /\ ver' = [ver EXCEPT ![plugID] = @ + 1]
                    /\ pmQueue' = Append(pmQueue, e)
                    /\ hapQueue' = Append(hapQueue, e)
                    /\ lastTouch' = [lastTouch EXCEPT ![plugID] =
                                        [kind |-> "ingest", on |-> st.on,
                                         afterAck |-> acked[plugID] /\ ~CommandInFlight(plugID)]]
                    /\ hookLast' = [prefix |-> prefix, segments |-> nseg,
                                    plugID |-> third, payload |-> payload,
                                    emitted |-> 1]
           ELSE /\ hookLast' = [prefix |-> prefix, segments |-> nseg,
                                plugID |-> third, payload |-> payload,
                                emitted |-> 0]
                /\ UNCHANGED << states, ver, pmQueue, hapQueue, lastTouch >>
    /\ UNCHANGED << now, commands, webQueue, hapOn, webState, cmdPc, cmdCtx,
                    dlPc, dlCtx, startupPending, errorCount, published, acked >>
    /\ UNCHANGED supVars
    /\ UNCHANGED << connSeen, busCommands, toggleReply, sseChan, ssePc >>
    /\ UNCHANGED extVars

\* -------------------------------------------------------------- delta loop
\* A merge that takes everything but the power state from the delta.
MergeDeltaKeepOn(st, d) ==
    LET s1 == IF d.lastSeen # 0
              THEN [st EXCEPT !.lastSeen = d.lastSeen,
                              !.mqttConnected = d.mqttConnected]
              ELSE st
    IN  IF d.lastUpdated # 0
        THEN [s1 EXCEPT !.lastUpdated = d.lastUpdated,
                        !.power = d.power, !.voltage = d.voltage,
                        !.current = d.current, !.energy = d.energy]
        ELSE s1

\* A merge that adds the delta's energy to the stored energy.
MergeDeltaAccumulate(st, d) ==
    LET s1 == IF d.lastSeen # 0
              THEN [st EXCEPT !.lastSeen = d.lastSeen,
                              !.mqttConnected = d.mqttConnected]
              ELSE st
    IN  IF d.lastUpdated # 0
        THEN [s1 EXCEPT !.lastUpdated = d.lastUpdated, !.on = d.on,
                        !.power = d.power, !.voltage = d.voltage,
                        !.current = d.current, !.energy = @ + d.energy]
        ELSE s1

\* The merge of ProcessStateEvents.
MergeDelta(st, d) ==
    LET s1 == IF d.lastSeen # 0
              THEN [st EXCEPT !.lastSeen = d.lastSeen,
                              !.mqttConnected = d.mqttConnected]
              ELSE st
    IN  IF d.lastUpdated # 0
        THEN [s1 EXCEPT !.lastUpdated = d.lastUpdated, !.on = d.on,
                        !.power = d.power, !.voltage = d.voltage,
                        !.current = d.current, !.energy = d.energy]
        ELSE s1

dlUnchanged ==
    /\ UNCHANGED << now, commands, hapQueue, hapOn, webState, cmdPc, cmdCtx,
                    startupPending, errorCount, lastTouch, acked, nInputs >>
    /\ UNCHANGED supVars
    /\ UNCHANGED ioVars

\* ProcessStateEvents: merge and copy under the lock (the events modelled
\* all name a configured plug).
DeltaMerge ==
    /\ dlPc = "idle"
    /\ pmQueue # << >>
    /\ Head(pmQueue).plugID \in Plugs
    /\ LET e  == Head(pmQueue)
           p  == e.plugID
           st == MergeDelta(states[p], e.state)
       IN  /\ states' = [states EXCEPT ![p] = st]
           /\ ver' = [ver EXCEPT ![p] = @ + 1]
           /\ dlCtx' = [plugID |-> p, state |-> st, ver |-> ver[p] + 1,
                        cause |-> e.cause]
           /\ connSeen' = IF e.cause = "mqtt"
                          THEN [connSeen EXCEPT ![p] = "none"]
                          ELSE connSeen
    /\ pmQueue' = Tail(pmQueue)
    /\ dlPc' = "publish"
    /\ UNCHANGED << webQueue, published >>
    /\ dlUnchanged

\* ProcessStateEvents: publishStateUpdate("eventbus", ...) after the unlock.
DeltaPublish ==
    /\ dlPc = "publish"
    /\ LET u == StateUpdate("eventbus", dlCtx.plugID, dlCtx.state, now,
                            dlCtx.ver, dlCtx.cause)
       IN  /\ webQueue' = Append(webQueue, u)
           /\ published' = [published EXCEPT ![dlCtx.plugID] = Append(@, u)]
           /\ connSeen' = [connSeen EXCEPT ![dlCtx.plugID] = u.connectionState]
    /\ dlPc' = "idle"
    /\ dlCtx' = None
    /\ UNCHANGED << states, ver, pmQueue >>
    /\ dlUnchanged

\* ------------------------------------------------------------- HAP adapter
\* HAPManager.ProcessStateChanges -> UpdateState
HAPProcess ==
    /\ hapQueue # << >>
    /\ LET e == Head(hapQueue)
       IN  hapOn' = IF e.plugID \in HomeKitPlugs
                    THEN [hapOn EXCEPT ![e.plugID] = e.state.on]
                    ELSE hapOn
    /\ hapQueue' = Tail(hapQueue)
    /\ UNCHANGED << now, states, ver, commands, pmQueue, webQueue, webState,
                    cmdPc, cmdCtx, dlPc, dlCtx, startupPending, errorCount,
                    published, lastTouch, acked, nInputs >>
    /\ UNCHANGED supVars
    /\ UNCHANGED auxVars

\* ------------------------------------------------------------- web adapter
\* renderPlugCard: connectionIndicator and connectionText of a card rendered
\* at time t.
connectionIndicator(lastSeen, t) ==
    IF lastSeen = 0 THEN << "disconnected", "Never seen" >>
    ELSE IF t - lastSeen < StaleAfter THEN << "connected", "Last seen" >>
    ELSE IF t - lastSeen < DisconnectedAfter THEN << "stale", "Last seen" >>
    ELSE << "disconnected", "Last seen" >>

\* A broadcast that gives up on every client as soon as one queue is full.
broadcastSSEAllOrNothing(event) ==
    IF \E c \in Clients : ssePc[c] # "off" /\ Len(sseChan[c]) >= SSECapacity
    THEN sseChan
    ELSE [c \in Clients |->
            IF ssePc[c] # "off" THEN Append(sseChan[c], event) ELSE sseChan[c]]

\* WebServer.broadcastSSE: a non-blocking send to every registered client.
broadcastSSE(event) ==
    [c \in Clients |->
        IF ssePc[c] # "off" /\ Len(sseChan[c]) < SSECapacity
        THEN Append(sseChan[c], event)
        ELSE sseChan[c]]

\* WebServer.processStateChanges
WebProcess ==
    /\ webQueue # << >>
    /\ webState' = [webState EXCEPT ![Head(webQueue).plugID] = Head(webQueue)]
    /\ sseChan' = broadcastSSE(Head(webQueue))
    /\ webQueue' = Tail(webQueue)
    /\ UNCHANGED << now, states, ver, commands, pmQueue, hapQueue, hapOn,
                    cmdPc, cmdCtx, dlPc, dlCtx, startupPending, errorCount,
                    published, lastTouch, acked, nInputs >>
    /\ UNCHANGED supVars
    /\ UNCHANGED << connSeen, busCommands, toggleReply, ssePc, hookLast, extVars >>

\* ------------------------------------------------------------ SSE clients
\* The plug ids in the order sort.Slice puts them.
PlugOrder == << "p1", "p2" >>

\* WebServer.snapshotState: the cached events sorted by plug id.
snapshotState ==
    LET all == [i \in 1..Len(PlugOrder) |-> webState[PlugOrder[i]]]
        cached(e) == e # None
    IN  SelectSeq(all, cached)

\* select { case clientChan <- evt: default: } for every event of evts.
RECURSIVE trySend(_, _)
trySend(ch, evts) ==
    IF evts = << >> THEN ch
    ELSE trySend(IF Len(ch) < SSECapacity THEN Append(ch, Head(evts)) ELSE ch,
                 Tail(evts))

sseUnchanged ==
    /\ UNCHANGED << now, states, ver, commands, pmQueue, hapQueue, webQueue,
                    hapOn, webState, cmdPc, cmdCtx, dlPc, dlCtx, startupPending,
                    errorCount, published, lastTouch, acked, nInputs >>
    /\ UNCHANGED supVars
    /\ UNCHANGED << connSeen, busCommands, toggleReply, hookLast, extVars >>

\* HandleSSE up to the registration of the client's channel.
SSEConnect(c) ==
    /\ ssePc[c] = "off"
    /\ ssePc' = [ssePc EXCEPT ![c] = "snapshot"]
    /\ sseChan' = [sseChan EXCEPT ![c] = << >>]
    /\ sseUnchanged

\* HandleSSE: the snapshot loop.
SSESnapshot(c) ==
    /\ ssePc[c] = "snapshot"
    /\ sseChan' = [sseChan EXCEPT ![c] = trySend(sseChan[c], snapshotState)]
    /\ ssePc' = [ssePc EXCEPT ![c] = "stream"]
    /\ sseUnchanged

\* HandleSSE: the stream loop takes one event and writes its data: frame.
SSERead(c) ==
    /\ ssePc[c] = "stream"
    /\ sseChan[c] # << >>
    /\ sseChan' = [sseChan EXCEPT ![c] = Tail(sseChan[c])]
    /\ UNCHANGED ssePc
    /\ sseUnchanged

\* HandleSSE: the request context ends; the deferred function removes and
\* closes the channel.
SSEDisconnect(c) ==
    /\ ssePc[c] = "stream"
    /\ ssePc' = [ssePc EXCEPT ![c] = "off"]
    /\ sseChan' = [sseChan EXCEPT ![c] = << >>]
    /\ sseUnchanged

\* -------------------------------------------------------- metrics collector
\* A client of the bus publishing a CommandEvent with the given fields.
PublishCommand(source, plugID, commandType) ==
    /\ nInputs > 0
    /\ nInputs' = nInputs - 1
    /\ busCommands' = Append(busCommands,
                             [ source |-> source, plugID |-> plugID,
                               commandType |-> commandType, on |-> TRUE ])
    /\ UNCHANGED << now, states, ver, commands, pmQueue, hapQueue, webQueue,
                    hapOn, webState, cmdPc, cmdCtx, dlPc, dlCtx, startupPending,
                    errorCount, published, lastTouch, acked >>
    /\ UNCHANGED supVars
    /\ UNCHANGED << connSeen, toggleReply, sseChan, ssePc, hookLast, extVars >>

\* The labels observeCommand would use without its defaults.
observeCommandRaw(evt) == << evt.source, evt.plugID, evt.commandType >>

\* Collector.observeCommand: the label values the counter is incremented for.
observeCommand(evt) ==
    LET commandType == IF evt.commandType = "" THEN "unknown" ELSE evt.commandType
        source      == IF evt.source = "" THEN "unknown" ELSE evt.source
        plugID      == IF evt.plugID = "" THEN "unknown" ELSE evt.plugID
    IN  << source, plugID, commandType >>

\* Collector.consumeCommands: one event taken from the subscription.
ConsumeCommand ==
    /\ metricsSeen < Len(busCommands)
    /\ metricsSeen' = metricsSeen + 1
    /\ commandTotal' = [commandTotal EXCEPT
                            ![observeCommand(busCommands[metricsSeen + 1])] = @ + 1]
    /\ UNCHANGED << now, states, ver, commands, pmQueue, hapQueue, webQueue,
                    hapOn, webState, cmdPc, cmdCtx, dlPc, dlCtx, startupPending,
                    errorCount, published, lastTouch, acked, nInputs >>
    /\ UNCHANGED supVars
    /\ UNCHANGED << connSeen, busCommands, toggleReply, sseChan, ssePc, hookLast,
                    cancelled, exited, pureVars, lateVars >>

\* --------------------------------------------------------------- shutdown
\* The goroutines that select on the root context: ProcessCommands,
\* ProcessStateEvents, MonitorConnections, the HAP and web subscriber loops,
\* the metrics worker for commands, and one HandleSSE per client.
Loops == {"command", "delta", "supervisor", "hap", "web", "metrics"} \cup Clients

Running(l) == l \notin exited

\* Loop l is blocked in the select that has the <-ctx.Done() case.
AtSuspension(l) ==
    CASE l = "command" -> cmdPc = "idle"
      [] l = "delta" -> dlPc = "idle"
      [] l = "supervisor" -> supPc = "idle"
      [] l \in Clients -> ssePc[l] = "stream"
      [] OTHER -> TRUE

\* The other case of loop l's select can proceed.
Ready(l) ==
    CASE l = "command" -> commands # << >>
      [] l = "delta" -> pmQueue # << >>
      [] l = "supervisor" -> tickPending
      [] l = "hap" -> hapQueue # << >>
      [] l = "web" -> webQueue # << >>
      [] l = "metrics" -> metricsSeen < Len(busCommands)
      [] OTHER -> sseChan[l] # << >>

\* Loop l is parked in its select: no case can proceed.
Parked(l) == Running(l) /\ AtSuspension(l) /\ ~Ready(l)

\* signal.NotifyContext: an interrupt or termination signal arrives and the
\* context is done. Every loop parked in its select is woken by the
\* <-ctx.Done() case and returns; the others see the done context when they
\* next reach their select.
Cancel ==
    /\ ~cancelled
    /\ cancelled' = TRUE
    /\ exited' = exited \cup { l \in Loops : Parked(l) }
    /\ ssePc' = [c \in Clients |-> IF Parked(c) THEN "off" ELSE ssePc[c]]
    /\ sseChan' = [c \in Clients |-> IF Parked(c) THEN << >> ELSE sseChan[c]]
    /\ UNCHANGED << now, states, ver, commands, pmQueue, hapQueue, webQueue,
                    hapOn, webState, cmdPc, cmdCtx, dlPc, dlCtx, startupPending,
                    errorCount, published, lastTouch, acked, nInputs >>
    /\ UNCHANGED supVars
    /\ UNCHANGED << connSeen, busCommands, toggleReply, hookLast, metricsSeen,
                    commandTotal, pureVars, lateVars >>

\* Loop l reaches its select with the context done and the select takes the
\* <-ctx.Done() case (any case that can proceed may be taken): the loop returns; an
\* SSE handler's deferred function removes and closes its channel.
LoopExit(l) ==
    /\ cancelled
    /\ Running(l)
    /\ AtSuspension(l)
    /\ exited' = exited \cup {l}
    /\ IF l \in Clients
       THEN /\ ssePc' = [ssePc EXCEPT ![l] = "off"]
            /\ sseChan' = [sseChan EXCEPT ![l] = << >>]
       ELSE UNCHANGED << ssePc, sseChan >>
    /\ UNCHANGED << now, states, ver, commands, pmQueue, hapQueue, webQueue,
                    hapOn, webState, cmdPc, cmdCtx, dlPc, dlCtx, startupPending,
                    errorCount, published, lastTouch, acked, nInputs >>
    /\ UNCHANGED supVars
    /\ UNCHANGED << connSeen, busCommands, toggleReply, hookLast, metricsSeen,
                    commandTotal, cancelled, pureVars, lateVars >>

\* ------------------------------------------------------ liveness supervisor
\* The clock advances by one ticker period and the ticker delivers a tick.
\* The supervisor handles a tick within the period it arrived in: the clock
\* stands still while a tick waits or is being handled.
AdvanceClock ==
    /\ now < MaxTime
    /\ ~tickPending
    /\ supPc = "idle"
    /\ now' = now + 1
    /\ tickPending' = TRUE
    /\ UNCHANGED syncVars
    /\ UNCHANGED << supPc, supTodo, supCur, initialConfigTime, initialCheckDone,
                    tickHadInitial, tickCalls >>
    /\ UNCHANGED auxVars

\* A silence test that waits one ticker period longer.
SilentTooLongLate(st, t) == st.lastSeen # 0 /\ t - st.lastSeen > ReconfigureAfter + 1

\* The condition of the ongoing check on a plug's state at time t.
SilentTooLong(st, t) == st.lastSeen # 0 /\ t - st.lastSeen > ReconfigureAfter

Call(p, phase, call, ok) == [ plug |-> p, phase |-> phase, call |-> call, ok |-> ok ]

supUnchanged ==
    UNCHANGED << now, commands, pmQueue, hapQueue, hapOn, webState, cmdPc,
                 cmdCtx, dlPc, dlCtx, startupPending, acked, nInputs,
                 initialConfigTime, busCommands, toggleReply, sseChan, ssePc,
                 hookLast, extVars >>

\* MonitorConnections receives a tick.
SupTick ==
    /\ supPc = "idle"
    /\ tickPending
    /\ tickPending' = FALSE
    /\ tickCalls' = << >>
    /\ IF ~initialCheckDone /\ now - initialConfigTime > InitialDelay
       THEN /\ initialCheckDone' = TRUE
            /\ supPc' = "initial"
            /\ supTodo' = Plugs
            /\ tickHadInitial' = TRUE
       ELSE IF initialCheckDone
       THEN /\ supPc' = "ongoing"
            /\ supTodo' = Plugs
            /\ tickHadInitial' = FALSE
            /\ UNCHANGED initialCheckDone
       ELSE UNCHANGED << initialCheckDone, supPc, supTodo, tickHadInitial >>
    /\ UNCHANGED << states, ver, webQueue, errorCount, published, lastTouch, supCur >>
    /\ supUnchanged
    /\ UNCHANGED connSeen

\* Initial check: the range over pm.states reaches its end.
SupInitialDone ==
    /\ supPc = "initial"
    /\ supTodo = {}
    /\ supPc' = "ongoing"
    /\ supTodo' = Plugs
    /\ UNCHANGED << states, ver, webQueue, errorCount, published, lastTouch,
                    supCur, initialCheckDone, tickPending, tickHadInitial, tickCalls >>
    /\ supUnchanged
    /\ UNCHANGED connSeen

\* Initial check: the range visits p and tests LastSeen.IsZero().
SupInitialVisit(p) ==
    /\ supPc = "initial"
    /\ p \in supTodo
    /\ supTodo' = supTodo \ {p}
    /\ IF states[p].lastSeen = 0
       THEN supPc' = "initialConfigure" /\ supCur' = p
       ELSE UNCHANGED << supPc, supCur >>
    /\ UNCHANGED << states, ver, webQueue, errorCount, published, lastTouch,
                    initialCheckDone, tickPending, tickHadInitial, tickCalls >>
    /\ supUnchanged
    /\ UNCHANGED connSeen

\* Initial check: ConfigureMQTT returns; on failure the ErrorEvent.
SupInitialConfigure(ok) ==
    /\ supPc = "initialConfigure"
    /\ tickCalls' = Append(tickCalls, Call(supCur, "initial", "backlog", ok))
    /\ IF ok
       THEN supPc' = "initialStatus" /\ UNCHANGED errorCount
       ELSE /\ supPc' = "initial"
            /\ errorCount' = [errorCount EXCEPT ![supCur] = @ + 1]
    /\ UNCHANGED << states, ver, webQueue, published, lastTouch, supTodo, supCur,
                    initialCheckDone, tickPending, tickHadInitial >>
    /\ supUnchanged
    /\ UNCHANGED connSeen

\* Initial check: GetStatus returns; its error is only logged.
SupInitialStatus(r) ==
    /\ supPc = "initialStatus"
    /\ GetStatus(supCur, r)
    /\ tickCalls' = Append(tickCalls,
                           Call(supCur, "initial", "status", StatusOutcome(r) # "error"))
    /\ supPc' = "initial"
    /\ UNCHANGED << errorCount, supTodo, supCur, initialCheckDone, tickPending,
                    tickHadInitial >>
    /\ supUnchanged
    /\ UNCHANGED ioVars

\* Ongoing check: the range over pm.states reaches its end.
SupOngoingDone ==
    /\ supPc = "ongoing"
    /\ supTodo = {}
    /\ supPc' = "idle"
    /\ UNCHANGED << states, ver, webQueue, errorCount, published, lastTouch,
                    supTodo, supCur, initialCheckDone, tickPending,
                    tickHadInitial, tickCalls >>
    /\ supUnchanged
    /\ UNCHANGED connSeen

\* Ongoing check: the range visits p and tests its silence.
SupOngoingVisit(p) ==
    /\ supPc = "ongoing"
    /\ p \in supTodo
    /\ supTodo' = supTodo \ {p}
    /\ IF SilentTooLong(states[p], now)
       THEN supPc' = "ongoingStatus" /\ supCur' = p
       ELSE UNCHANGED << supPc, supCur >>
    /\ UNCHANGED << states, ver, webQueue, errorCount, published, lastTouch,
                    initialCheckDone, tickPending, tickHadInitial, tickCalls >>
    /\ supUnchanged
    /\ UNCHANGED connSeen

\* Ongoing check: GetStatus returns; on failure the ErrorEvent.
SupOngoingStatus(r) ==
    /\ supPc = "ongoingStatus"
    /\ GetStatus(supCur, r)
    /\ IF StatusOutcome(r) = "error"
       THEN /\ tickCalls' = Append(Append(tickCalls,
                                   Call(supCur, "ongoing", "status", FALSE)),
                                   Call(supCur, "ongoing", "error", FALSE))
            /\ errorCount' = [errorCount EXCEPT ![supCur] = @ + 1]
            /\ supPc' = "ongoing"
       ELSE /\ tickCalls' = Append(tickCalls, Call(supCur, "ongoing", "status", TRUE))
            /\ UNCHANGED errorCount
            /\ supPc' = "ongoingConfigure"
    /\ UNCHANGED << supTodo, supCur, initialCheckDone, tickPending, tickHadInitial >>
    /\ supUnchanged
    /\ UNCHANGED ioVars

\* Ongoing check: ConfigureMQTT returns; its error is only logged.
SupOngoingConfigure(ok) ==
    /\ supPc = "ongoingConfigure"
    /\ tickCalls' = Append(tickCalls, Call(supCur, "ongoing", "backlog", ok))
    /\ supPc' = "ongoing"
    /\ UNCHANGED << states, ver, webQueue, errorCount, published, lastTouch,
                    supTodo, supCur, initialCheckDone, tickPending, tickHadInitial >>
    /\ supUnchanged
    /\ UNCHANGED connSeen

\* Everything but the inputs and results of the start-up functions and readers.
coreVars == << now, syncVars, supVars, connSeen, busVars, sseVars, hookLast,
               metricsSeen, commandTotal, cancelled, exited, lateVars >>

\* -------------------------------------------------------------- LoadConfig
\* The plug entries a file may hold: an absent key is the zero value ("" or a
\* nil pointer).
FileEntries ==
    [ id : {"", "a", "b"}, name : {"", "n"}, address : {"", "h"},
      homekit : {"absent", "true", "false"}, web : {"absent", "false"} ]

\* The files: one that cannot be read, one that is not HuJSON, one whose JSON
\* does not fit the Config type, and the well-typed ones by their plug list.
Files ==
    { [ kind |-> k, plugs |-> << >> ] : k \in {"unreadable", "malformed", "mistyped"} }
        \cup { [ kind |-> "json", plugs |-> s ] :
                 s \in UNION { [1..n -> FileEntries] : n \in 0..MaxFilePlugs } }

Rejected(msg) == [ ok |-> FALSE, err |-> msg, plugs |-> << >> ]

\* A loop body that does not look at seenIDs.
plugErrorNoDuplicates(plugs, i) ==
    IF plugs[i].id = "" THEN "no ID"
    ELSE IF plugs[i].name = "" THEN "no name"
    ELSE IF plugs[i].address = "" THEN "no address"
    ELSE ""

\* The checks of LoadConfig's loop on entry i, all earlier entries having
\* passed them: "" when the entry passes.
plugError(plugs, i) ==
    IF plugs[i].id = "" THEN "no ID"
    ELSE IF plugs[i].name = "" THEN "no name"
    ELSE IF plugs[i].address = "" THEN "no address"
    ELSE IF \E j \in 1..(i - 1) : plugs[j].id = plugs[i].id THEN "duplicate plug id"
    ELSE ""

\* The defaults for HomeKit and Web.
withDefaults(plug) ==
    [ id |-> plug.id, name |-> plug.name, address |-> plug.address,
      homekit |-> plug.homekit # "false", web |-> plug.web # "false" ]

LoadConfig(file) ==
    IF file.kind = "unreadable" THEN Rejected("failed to read plugs config file")
    ELSE IF file.kind = "malformed" THEN Rejected("failed to standardize HuJSON")
    ELSE IF file.kind = "mistyped" THEN Rejected("failed to unmarshal plugs config")
    ELSE IF Len(file.plugs) = 0 THEN Rejected("no plugs configured")
    ELSE LET bad == { i \in 1..Len(file.plugs) : plugError(file.plugs, i) # "" }
         IN  IF bad # {}
             THEN Rejected(plugError(file.plugs,
                                     CHOOSE i \in bad : \A j \in bad : i <= j))
             ELSE [ ok |-> TRUE, err |-> "",
                    plugs |-> [i \in 1..Len(file.plugs) |-> withDefaults(file.plugs[i])] ]

\* Main loads the plug configuration.
LoadConfigCall(file) ==
    /\ loadIn = NoFile
    /\ loadIn' = file
    /\ loadOut' = LoadConfig(file)
    /\ UNCHANGED << envIn, envOut, hapPlugs, hapRuns, heap, returned >>
    /\ UNCHANGED coreVars

InitLoad == InitWith(MaxInputs)

NextLoad == loadIn = NoFile /\ \E file \in Files : LoadConfigCall(file)

SpecLoad == InitLoad /\ [][NextLoad]_vars

\* ---------------------------------------------------------------- Validate
\* One listener's part of the environment: whether the *_PORT variable is
\* set, the Port field, and the *_ADDR override (an IP literal with a port
\* number, or absent); the bind address is left at its default.
AddrValues ==
    { [ present |-> FALSE, port |-> 0 ] }
        \cup { [ present |-> TRUE, port |-> p ] : p \in {MinPort - 1, MaxPort, MaxPort + 1} }

ListenerInputs ==
    { l \in [ portSet : BOOLEAN,
              port : {MinPort - 1, MinPort, MaxPort, MaxPort + 1},
              addr : AddrValues ] : l.portSet \/ l.port = 0 }

Envs ==
    [ pinLen : {PinLength - 1, PinLength},
      hap : ListenerInputs, web : ListenerInputs, mqtt : ListenerInputs,
      plugsConfigPath : {"", "./plugs.hujson"},
      logLevel : {"info", "verbose"},
      logFormat : {"json", "xml"},
      tailscaleStateDir : {"", "./data/tailscale"} ]

Invalid(msg) == [ ok |-> FALSE, err |-> msg, hap |-> 0, web |-> 0, mqtt |-> 0 ]

validatePortRange(port) == ~(port < MinPort \/ port > MaxPort)

\* netip.ParseAddrPort on an IP literal with a port number: the port has to
\* fit 16 bits.
ParseAddrPort(port) == port \in 0..MaxPort

\* One listener's part of parseListenerAddrs: the port the listener will
\* bind, or -1 for a port out of range, -2 for an address that does not parse.
listenerPort(l, defaultPort) ==
    LET port == IF l.port = 0 /\ ~l.portSet THEN defaultPort ELSE l.port
        addr == IF l.addr.present THEN l.addr.port ELSE port
    IN  IF ~validatePortRange(port) THEN -1
        ELSE IF ~ParseAddrPort(addr) THEN -2
        ELSE addr

Validate(env) ==
    LET hap  == listenerPort(env.hap, DefaultHAPPort)
        web  == listenerPort(env.web, DefaultWebPort)
        mqtt == listenerPort(env.mqtt, DefaultMQTTPort)
    IN  IF env.pinLen # PinLength THEN Invalid("HAP PIN must be exactly 8 digits")
        ELSE IF hap = -1 THEN Invalid("HAP port must be between 1 and 65535")
        ELSE IF hap = -2 THEN Invalid("invalid HAP addr")
        ELSE IF web = -1 THEN Invalid("web port must be between 1 and 65535")
        ELSE IF web = -2 THEN Invalid("invalid web addr")
        ELSE IF mqtt = -1 THEN Invalid("MQTT port must be between 1 and 65535")
        ELSE IF mqtt = -2 THEN Invalid("invalid MQTT addr")
        ELSE IF env.plugsConfigPath = "" THEN Invalid("PlugsConfigPath cannot be empty")
        ELSE IF env.logLevel \notin {"debug", "info", "warn", "error"}
             THEN Invalid("invalid log level")
        ELSE IF env.logFormat \notin {"json", "console"} THEN Invalid("invalid log format")
        ELSE IF env.tailscaleStateDir = "" THEN Invalid("TailscaleStateDir cannot be empty")
        ELSE [ ok |-> TRUE, err |-> "", hap |-> hap, web |-> web, mqtt |-> mqtt ]

\* config.Load validates the environment.
ValidateCall(env) ==
    /\ envIn = NoEnv
    /\ envIn' = env
    /\ envOut' = Validate(env)
    /\ UNCHANGED << loadIn, loadOut, hapPlugs, hapRuns, heap, returned >>
    /\ UNCHANGED coreVars

InitEnv == InitWith(MaxInputs)

NextEnv == envIn = NoEnv /\ \E env \in Envs : ValidateCall(env)

SpecEnv == InitEnv /\ [][NextEnv]_vars

\* ------------------------------------------------------------- accessories
\* The plug configurations NewHAPManager may be given: what LoadConfig
\* accepts, so ids are pairwise distinct.
ConfigIDs == Plugs \cup {"p3"}

PlugConfigs ==
    [ id : ConfigIDs, homekit : {"absent", "true", "false"}, type : {"bulb", "outlet"} ]

Configs ==
    { s \in UNION { [1..n -> PlugConfigs] : n \in 1..HapMaxPlugs } :
        \A i, j \in 1..Len(s) : i # j => s[i].id # s[j].id }

\* A manager that skips no plug.
homeKitEnabledAlways(plug) == TRUE

\* The test NewHAPManager skips a plug by, negated.
homeKitEnabled(plug) == ~(plug.homekit # "absent" /\ plug.homekit = "false")

\* hm.accessories after NewHAPManager: plug id -> the wrapper stored for it.
accessoriesOf(plugConfigs) ==
    LET ids == { plugConfigs[i].id : i \in { j \in 1..Len(plugConfigs) :
                                                 homeKitEnabled(plugConfigs[j]) } }
        last(id) == CHOOSE i \in 1..Len(plugConfigs) :
                        /\ plugConfigs[i].id = id
                        /\ homeKitEnabled(plugConfigs[i])
                        /\ \A j \in (i + 1)..Len(plugConfigs) :
                               ~(plugConfigs[j].id = id /\ homeKitEnabled(plugConfigs[j]))
    IN  [ id \in ids |->
            IF plugConfigs[last(id)].type = "bulb" THEN "Lightbulb" ELSE "Outlet" ]

\* The orders in which a range over a map with these keys may visit them.
RangeOrders(keys) ==
    { o \in [1..Cardinality(keys) -> keys] :
        \A i, j \in 1..Cardinality(keys) : i # j => o[i] # o[j] }

\* GetAccessories for one order of the range over hm.accessories, followed by
\* hap.NewServer(store, accessories[0], accessories[1:]...): no accessory has
\* been given an id, so each gets the id of its place in the list.
GetAccessories(plugConfigs, order) ==
    LET accessories == accessoriesOf(plugConfigs)
    IN  [ i \in 1..(Len(order) + 1) |->
            IF i = 1
            THEN [ kind |-> "Bridge", serial |-> "TB001", id |-> 1 ]
            ELSE [ kind |-> accessories[order[i - 1]], serial |-> order[i - 1],
                   id |-> i ] ]

\* Main builds the HAP manager from the plug configuration.
NewHAPManagerCall(plugConfigs) ==
    /\ hapPlugs = << >>
    /\ hapPlugs' = plugConfigs
    /\ UNCHANGED << loadIn, loadOut, envIn, envOut, hapRuns, heap, returned >>
    /\ UNCHANGED coreVars

\* One run of the program with this configuration collects the accessories
\* and creates the HAP server.
GetAccessoriesCall(order) ==
    /\ hapPlugs # << >>
    /\ Len(hapRuns) < HapMaxRuns
    /\ order \in RangeOrders(DOMAIN accessoriesOf(hapPlugs))
    /\ hapRuns' = Append(hapRuns, GetAccessories(hapPlugs, order))
    /\ UNCHANGED << loadIn, loadOut, envIn, envOut, hapPlugs, heap, returned >>
    /\ UNCHANGED coreVars

InitHAP == InitWith(MaxInputs)

NextHAP ==
    \/ hapPlugs = << >> /\ \E plugConfigs \in Configs : NewHAPManagerCall(plugConfigs)
    \/ \E order \in RangeOrders(DOMAIN accessoriesOf(hapPlugs)) :
          GetAccessoriesCall(order)

SpecHAP == InitHAP /\ [][NextHAP]_vars

\* ----------------------------------------------------------- store readers
\* What a reader is handed for the plugs in ps: for each plug the State value
\* copied from *state, and the Plug value copied from info.Config, whose
\* HomeKit and Web fields are the pointers the store's own Config holds (a
\* pointer is the key of the plug whose bools it points to).
ReadOf(ps) ==
    [ state |-> [q \in ps |-> states[q]], config |-> [q \in ps |-> q] ]

\* Manager.Plug(p).
PlugRead(p) ==
    /\ Len(returned) < CopyMaxReads
    /\ returned' = Append(returned, ReadOf({p}))
    /\ UNCHANGED << loadIn, loadOut, envIn, envOut, hapPlugs, hapRuns, heap >>
    /\ UNCHANGED coreVars

\* Manager.Snapshot().
SnapshotRead ==
    /\ Len(returned) < CopyMaxReads
    /\ returned' = Append(returned, ReadOf(Plugs))
    /\ UNCHANGED << loadIn, loadOut, envIn, envOut, hapPlugs, hapRuns, heap >>
    /\ UNCHANGED coreVars

\* The holder of the i-th returned value assigns through its Plug's HomeKit
\* or Web pointer for plug q.
CallerWritePointer(i, q, field, v) ==
    /\ i \in 1..Len(returned)
    /\ q \in DOMAIN returned[i].config
    /\ heap' = [heap EXCEPT ![returned[i].config[q]][field] = v]
    /\ UNCHANGED << loadIn, loadOut, envIn, envOut, hapPlugs, hapRuns, returned >>
    /\ UNCHANGED coreVars

\* The holder of the i-th returned value assigns to its State's On for plug q.
CallerWriteState(i, q, on) ==
    /\ i \in 1..Len(returned)
    /\ q \in DOMAIN returned[i].state
    /\ returned' = [returned EXCEPT ![i].state[q].on = on]
    /\ UNCHANGED << loadIn, loadOut, envIn, envOut, hapPlugs, hapRuns, heap >>
    /\ UNCHANGED coreVars

CallerWrite ==
    \/ \E i \in 1..CopyMaxReads, q \in Plugs, field \in {"homekit", "web"}, v \in BOOLEAN :
          CallerWritePointer(i, q, field, v)
    \/ \E i \in 1..CopyMaxReads, q \in Plugs, on \in BOOLEAN : CallerWriteState(i, q, on)

\* The store with its readers, their holders and a writer (the status fetch).
InitCopy == InitWith(CopyMaxInputs)

NextCopy ==
    \/ \E p \in Plugs : StartupFetch(p)
    \/ \E p \in Plugs : PlugRead(p)
    \/ SnapshotRead
    \/ CallerWrite

SpecCopy == InitCopy /\ [][NextCopy]_vars

\* ------------------------------------------------------------------ locks
\* A task's program: its steps in source order, each with the positions that
\* may follow it. A step takes or releases pm.mu ("store") or
\* ws.sseClientsMu ("clients"), waits at a suspension point, or does work
\* that suspends at none of them (non-blocking sends, publishing on the bus).
LockStep(lock, mode, next) == [ op |-> "lock", what |-> lock, mode |-> mode, next |-> next ]

UnlockStep(lock, mode, next) == [ op |-> "unlock", what |-> lock, mode |-> mode, next |-> next ]

WaitStep(on, next) == [ op |-> "wait", what |-> on, mode |-> "", next |-> next ]

WorkStep(what, next) == [ op |-> "work", what |-> what, mode |-> "", next |-> next ]

\* A command loop whose SetPower keeps the read lock over the device call.
commandProgramLockedCall ==
    << WaitStep("commands", {2}),
       LockStep("store", "r", {3}),
       WaitStep("http", {4}),
       UnlockStep("store", "r", {1, 5}),
       LockStep("store", "w", {6}),
       UnlockStep("store", "w", {7}),
       WorkStep("publish", {1}) >>

\* ProcessCommands and SetPower.
commandProgram ==
    << WaitStep("commands", {2}),
       LockStep("store", "r", {3}),
       UnlockStep("store", "r", {4}),
       WaitStep("http", {1, 5}),
       LockStep("store", "w", {6}),
       UnlockStep("store", "w", {7}),
       WorkStep("publish", {1}) >>

\* ProcessStateEvents.
deltaProgram ==
    << WaitStep("subscriber", {2}),
       LockStep("store", "w", {3}),
       UnlockStep("store", "w", {1, 4}),
       WorkStep("publish", {1}) >>

\* GetStatus, called by the startup goroutine: the lock is taken when the
\* response is in and released by the deferred Unlock, after the publish.
fetchProgram ==
    << WaitStep("http", {2, 5}),
       LockStep("store", "w", {3}),
       WorkStep("publish", {4}),
       UnlockStep("store", "w", {5}),
       WorkStep("return", {}) >>

\* MonitorConnections: the initial check (2..11) and the ongoing check
\* (12..21), each a range over pm.states under the read lock that releases
\* the lock around its device calls.
supervisorProgram ==
    << WaitStep("ticker", {1, 2, 12}),
       LockStep("store", "r", {3}),
       WorkStep("range", {4, 11}),
       UnlockStep("store", "r", {5}),
       WaitStep("http", {6, 10}),
       WaitStep("http", {7, 10}),
       LockStep("store", "w", {8}),
       WorkStep("publish", {9}),
       UnlockStep("store", "w", {10}),
       LockStep("store", "r", {3}),
       UnlockStep("store", "r", {12}),
       LockStep("store", "r", {13}),
       WorkStep("range", {14, 21}),
       UnlockStep("store", "r", {15}),
       WaitStep("http", {16, 20}),
       LockStep("store", "w", {17}),
       WorkStep("publish", {18}),
       UnlockStep("store", "w", {19}),
       WaitStep("http", {20}),
       LockStep("store", "r", {13}),
       UnlockStep("store", "r", {1}) >>

\* processStateChanges with broadcastSSE.
webProgram ==
    << WaitStep("subscriber", {2}),
       WorkStep("cache", {3}),
       LockStep("clients", "r", {4}),
       WorkStep("sends", {5}),
       UnlockStep("clients", "r", {1}) >>

\* HandleSSE: registration, snapshot, the stream loop with its write to the
\* client, and the deferred removal.
sseProgram ==
    << LockStep("clients", "w", {2}),
       UnlockStep("clients", "w", {3}),
       WorkStep("snapshot", {4}),
       WaitStep("channel", {5, 6}),
       WaitStep("write", {4, 6}),
       LockStep("clients", "w", {7}),
       UnlockStep("clients", "w", {8}),
       WorkStep("close", {1}) >>

\* HandleToggle: Plug() under the read lock, the send on the Command
\* channel, the response.
toggleProgram ==
    << LockStep("store", "r", {2}),
       UnlockStep("store", "r", {3, 4}),
       WaitStep("commands", {4}),
       WaitStep("write", {1}) >>

LockProgram(t) ==
    CASE t = "command" -> commandProgram
      [] t = "delta" -> deltaProgram
      [] t = "fetch" -> fetchProgram
      [] t = "supervisor" -> supervisorProgram
      [] t = "web" -> webProgram
      [] t = "sse" -> sseProgram
      [] OTHER -> toggleProgram

\* The step task t is at.
AtStep(t) == LockProgram(t)[lockPc[t]]

\* sync.RWMutex: a writer needs the lock free, a reader needs it free of
\* writers.
LockFree(t, lock, mode) ==
    \A u \in LockTasks \ {t} :
        \A h \in lockHeld[u] :
            h[1] = lock => (mode = "r" /\ h[2] = "r")

lockUnchanged ==
    /\ UNCHANGED << blockedSends, busLog, wsClosed, closes, sentOnClosed, sseSnap >>
    /\ UNCHANGED << now, syncVars, supVars, connSeen, busVars, sseVars, hookLast,
                    metricsSeen, commandTotal, cancelled, exited, pureVars >>

\* Lock or RLock.
Acquire(t) ==
    /\ AtStep(t).op = "lock"
    /\ LockFree(t, AtStep(t).what, AtStep(t).mode)
    /\ lockHeld' = [lockHeld EXCEPT ![t] = @ \cup {<< AtStep(t).what, AtStep(t).mode >>}]
    /\ \E n \in AtStep(t).next : lockPc' = [lockPc EXCEPT ![t] = n]
    /\ lockUnchanged

\* Unlock or RUnlock.
Release(t) ==
    /\ AtStep(t).op = "unlock"
    /\ lockHeld' = [lockHeld EXCEPT ![t] = @ \ {<< AtStep(t).what, AtStep(t).mode >>}]
    /\ \E n \in AtStep(t).next : lockPc' = [lockPc EXCEPT ![t] = n]
    /\ lockUnchanged

\* The wait at a suspension point ends.
Resume(t) ==
    /\ AtStep(t).op = "wait"
    /\ \E n \in AtStep(t).next : lockPc' = [lockPc EXCEPT ![t] = n]
    /\ UNCHANGED lockHeld
    /\ lockUnchanged

\* Work between suspension points.
Proceed(t) ==
    /\ AtStep(t).op = "work"
    /\ \E n \in AtStep(t).next : lockPc' = [lockPc EXCEPT ![t] = n]
    /\ UNCHANGED lockHeld
    /\ lockUnchanged

InitLocks == InitWith(MaxInputs)

NextLocks ==
    \/ \E t \in LockTasks : Acquire(t)
    \/ \E t \in LockTasks : Release(t)
    \/ \E t \in LockTasks : Resume(t)
    \/ \E t \in LockTasks : Proceed(t)

SpecLocks == InitLocks /\ [][NextLocks]_vars

\* ----------------------------------------------------------- specification
\* The manager with its producers: commands, MQTT messages, status fetches.
Next ==
    \/ \E p \in Plugs : StartupFetch(p)
    \/ \E p \in HomeKitPlugs, on \in BOOLEAN : HomeKitRemoteWrite(p, on)
    \/ \E p \in WebPlugs, on \in BOOLEAN : WebToggle(p, on)
    \/ \E p \in Plugs \cup {UnknownPlug} : HandleToggleRejected(p)
    \/ \E on \in BOOLEAN : ForeignCommand(on)
    \/ CmdUnknownPlug
    \/ CmdFail
    \/ CmdSucceed
    \/ CmdPublishChanged
    \/ CmdPublishUpdate
    \/ \E p \in Plugs, power \in {"ON", "OFF", ""}, reading \in Readings \cup {NoReading} :
          MQTTPublish(p, power, reading)
    \/ DeltaMerge
    \/ DeltaPublish

Spec == Init /\ [][Next]_vars

\* The manager together with the HAP and web adapters that consume its events.
InitViews == InitWith(MaxInputs)

NextViews ==
    \/ Next
    \/ HAPProcess
    \/ WebProcess

SpecViews == InitViews /\ [][NextViews]_vars

\* The liveness supervisor with the clock, MQTT messages and the delta loop.
InitSup == InitWith(SupMaxInputs)

NextSup ==
    \/ AdvanceClock
    \/ \E p \in Plugs, power \in {"ON", "OFF", ""}, reading \in Readings \cup {NoReading} :
          MQTTPublish(p, power, reading)
    \/ DeltaMerge
    \/ DeltaPublish
    \/ SupTick
    \/ SupInitialDone
    \/ \E p \in Plugs : SupInitialVisit(p)
    \/ \E ok \in BOOLEAN : SupInitialConfigure(ok)
    \/ \E r \in Responses : SupInitialStatus(r)
    \/ SupOngoingDone
    \/ \E p \in Plugs : SupOngoingVisit(p)
    \/ \E r \in Responses : SupOngoingStatus(r)
    \/ \E ok \in BOOLEAN : SupOngoingConfigure(ok)

SpecSup == InitSup /\ [][NextSup]_vars

\* The manager with one more input, enough for a command, an MQTT message and
\* a status fetch to meet.
InitConn == InitWith(ConnMaxInputs)

SpecConn == InitConn /\ [][Next]_vars

\* ------------------------------------------------------------- properties
\* Nothing is left for the manager to do.
ManagerIdle ==
    /\ commands = << >>
    /\ cmdPc = "idle"
    /\ pmQueue = << >>
    /\ dlPc = "idle"

\* The Command channel and all subscriber queues are empty, no operation is
\* in progress.
Quiescent ==
    /\ ManagerIdle
    /\ hapQueue = << >>
    /\ webQueue = << >>

\* The web adapter with its SSE clients: toggles for the web-enabled plug, a
\* startup fetch, the command and delta loops, the web adapter's subscriber
\* loop and the SSE handlers. The handler of a slow client is descheduled or
\* blocked in its write and takes nothing from its channel. The startup fetch
\* of the plug without web control comes before the first toggle; the user
\* sends the next toggle when the previous one has gone through and the other
\* clients have been served.
SlowClients == {"c1"}

FastClientsServed ==
    \A c \in Clients \ SlowClients : ssePc[c] # "snapshot" /\ sseChan[c] = << >>

InitSSE == InitWith(SSEMaxInputs)

NextSSE ==
    \/ \E p \in Plugs \ WebPlugs : busCommands = << >> /\ StartupFetch(p)
    \/ \E p \in WebPlugs :
          ManagerIdle /\ webQueue = << >> /\ FastClientsServed /\ WebToggle(p, TRUE)
    \/ CmdSucceed
    \/ CmdPublishChanged
    \/ CmdPublishUpdate
    \/ DeltaMerge
    \/ DeltaPublish
    \/ WebProcess
    \/ \E c \in Clients : SSEConnect(c)
    \/ \E c \in Clients : SSESnapshot(c)
    \/ \E c \in Clients \ SlowClients : SSERead(c)
    \/ \E c \in Clients \ SlowClients : SSEDisconnect(c)

SpecSSE == InitSSE /\ [][NextSSE]_vars

\* The broker hook with the subscribers of the events it sends.
InitHook == InitWith(HookMaxInputs)

NextHook ==
    \/ \E prefix \in TopicPrefixes, nseg \in SegmentCounts,
          third \in ThirdSegments, payload \in Payloads :
          OnPublish(prefix, nseg, third, payload)
    \/ DeltaMerge
    \/ DeltaPublish
    \/ HAPProcess

SpecHook == InitHook /\ [][NextHook]_vars

\* The metrics collector with the publishers of CommandEvents.
InitMetrics == InitWith(MetricsMaxInputs)

NextMetrics ==
    \/ \E p \in HomeKitPlugs, on \in BOOLEAN : HomeKitRemoteWrite(p, on)
    \/ \E p \in WebPlugs, on \in BOOLEAN : WebToggle(p, on)
    \/ \E source \in {"homekit", "web", ""}, plugID \in Plugs \cup {""},
          commandType \in {"set_power", ""} :
          PublishCommand(source, plugID, commandType)
    \/ ConsumeCommand

SpecMetrics == InitMetrics /\ [][NextMetrics]_vars

\* Shutdown: the producers, every loop while it has not returned, the signal
\* and the exits. A device call started after the signal fails (its context is
\* done); no new SSE request is accepted after the signal. The clock stops
\* before the supervisor's initial delay has passed.
InitCancel == InitWith(CancelMaxInputs)

NextCancel ==
    \/ Cancel
    \/ \E l \in Loops : LoopExit(l)
    \/ \E p \in HomeKitPlugs, on \in BOOLEAN : HomeKitRemoteWrite(p, on)
    \/ \E p \in WebPlugs, on \in BOOLEAN : WebToggle(p, on)
    \/ Running("command") /\ CmdFail
    \/ Running("command") /\ ~cancelled /\ CmdSucceed
    \/ Running("command") /\ CmdPublishChanged
    \/ Running("command") /\ CmdPublishUpdate
    \/ Running("delta") /\ DeltaMerge
    \/ Running("delta") /\ DeltaPublish
    \/ Running("hap") /\ HAPProcess
    \/ Running("web") /\ WebProcess
    \/ Running("metrics") /\ ConsumeCommand
    \/ now < CancelMaxTime /\ AdvanceClock
    \/ Running("supervisor") /\ SupTick
    \/ \E c \in Clients \ SlowClients : ~cancelled /\ SSEConnect(c)
    \/ \E c \in Clients : SSESnapshot(c)
    \/ \E c \in Clients : Running(c) /\ SSERead(c)

SpecCancel == InitCancel /\ [][NextCancel]_vars

\* -------------------------------------------------------- blocked senders
\* The goroutines parked in `commands <- ...` (HandleToggle, the HomeKit
\* callback) while the channel holds CommandCapacity commands.
BlockedSend(source, p, on) == [ source |-> source, plugID |-> p, on |-> on ]

RemoveAt(seq, i) == SubSeq(seq, 1, i - 1) \o SubSeq(seq, i + 1, Len(seq))

blockUnchanged ==
    /\ UNCHANGED << now, states, ver, pmQueue, hapQueue, webQueue, webState,
                    cmdPc, cmdCtx, dlPc, dlCtx, startupPending, errorCount,
                    published, acked >>
    /\ UNCHANGED supVars
    /\ UNCHANGED << connSeen, sseChan, ssePc, hookLast, metricsSeen, commandTotal,
                    cancelled, exited, pureVars >>
    /\ UNCHANGED << lockPc, lockHeld, busLog, wsClosed, closes, sentOnClosed, sseSnap >>

\* A toggle handler whose send is non-blocking: on a full channel the command
\* is discarded and the handler answers as if it had been sent.
WebToggleDrops(p, on) ==
    /\ p \in WebPlugs
    /\ nInputs > 0
    /\ Len(commands) = CommandCapacity
    /\ busCommands' = Append(busCommands, BusCommand("web", p, on))
    /\ toggleReply' = [plugID |-> p, status |-> 303]
    /\ nInputs' = nInputs - 1
    /\ UNCHANGED << commands, hapOn, lastTouch, blockedSends >>
    /\ blockUnchanged

\* HandleToggle reaches `ws.commands <- ...` with the channel full: the
\* handler's goroutine parks in the send.
WebToggleBlocks(p, on) ==
    /\ p \in WebPlugs
    /\ nInputs > 0
    /\ Len(commands) = CommandCapacity
    /\ blockedSends' = Append(blockedSends, BlockedSend("web", p, on))
    /\ nInputs' = nInputs - 1
    /\ UNCHANGED << commands, hapOn, lastTouch, busCommands, toggleReply >>
    /\ blockUnchanged

\* The OnValueRemoteUpdate callback reaches `commands <- ...` with the
\* channel full: the characteristic already holds the written value.
HomeKitWriteBlocks(p, on) ==
    /\ p \in HomeKitPlugs
    /\ nInputs > 0
    /\ Len(commands) = CommandCapacity
    /\ hapOn' = [hapOn EXCEPT ![p] = on]
    /\ blockedSends' = Append(blockedSends, BlockedSend("homekit", p, on))
    /\ nInputs' = nInputs - 1
    /\ UNCHANGED << commands, lastTouch, busCommands, toggleReply >>
    /\ blockUnchanged

\* A parked send proceeds once the channel has room; the sender goes on to
\* publishCommand and, for a toggle, to its response.
SendCompletes(i) ==
    /\ i \in 1..Len(blockedSends)
    /\ Len(commands) < CommandCapacity
    /\ LET s == blockedSends[i]
       IN  /\ commands' = Append(commands, CommandEvent(s.plugID, s.on))
           /\ busCommands' = Append(busCommands, BusCommand(s.source, s.plugID, s.on))
           /\ toggleReply' = IF s.source = "web"
                                THEN [plugID |-> s.plugID, status |-> 303]
                                ELSE toggleReply
           /\ lastTouch' = [lastTouch EXCEPT ![s.plugID] = Untouched]
    /\ blockedSends' = RemoveAt(blockedSends, i)
    /\ UNCHANGED << hapOn, nInputs >>
    /\ blockUnchanged

\* One plug is toggled from the web and written from HomeKit faster than the
\* command loop, whose device refuses every command, takes the commands.
InitBlock == InitWith(BlockMaxInputs)

NextBlock ==
    \/ WebToggle("p1", TRUE)
    \/ HomeKitRemoteWrite("p1", TRUE)
    \/ WebToggleBlocks("p1", TRUE)
    \/ HomeKitWriteBlocks("p1", TRUE)
    \/ \E i \in 1..Len(blockedSends) : SendCompletes(i)
    \/ CmdFail

\* ProcessCommands is a goroutine of its own and every device call returns
\* (the client has a timeout); a parked sender is woken when there is room.
SpecBlock ==
    /\ InitBlock
    /\ [][NextBlock]_vars
    /\ WF_vars(CmdFail)
    /\ WF_vars(\E i \in 1..Len(blockedSends) : SendCompletes(i))

\* -------------------------------------------------------------- bus clients
\* The names of the events package: ClientPlugManager, ClientMQTT, ClientWeb,
\* ClientHAP, ClientMetrics.
ClientNames == {"plugmanager", "mqtt", "web", "hap", "metrics"}

\* A name outside the set.
OtherName == "other"

\* What the callers of Bus.Client rely on: Main asks for ClientMetrics and
\* then starts the collector, which asks for it again, and asks for
\* ClientHAP after NewHAPManager did; each treats an error as fatal, and the
\* HAP test requires the second request to return no error. Nothing in the
\* callers fixes the answer for a name outside the set.
ClientResults(name) == IF name \in ClientNames THEN {TRUE} ELSE BOOLEAN

HandedOut == { busLog[i].name : i \in { j \in 1..Len(busLog) : busLog[j].ok } }

\* bus.Client(name)
BusClient(name) ==
    /\ Len(busLog) < BusMaxRequests
    /\ \E ok \in ClientResults(name) :
          busLog' = Append(busLog, [ name |-> name, ok |-> ok,
                                     duplicate |-> name \in HandedOut ])
    /\ UNCHANGED << lockPc, lockHeld, blockedSends, wsClosed, closes, sentOnClosed,
                    sseSnap >>
    /\ UNCHANGED << now, syncVars, supVars, connSeen, busVars, sseVars, hookLast,
                    metricsSeen, commandTotal, cancelled, exited, pureVars >>

InitBus == InitWith(MaxInputs)

NextBus == \E name \in ClientNames \cup {OtherName} : BusClient(name)

SpecBus == InitBus /\ [][NextBus]_vars

\* ---------------------------------------------------------------- last_seen
\* The manager with the clock: web toggles, status fetches and MQTT messages
\* (liveness only, or reporting the relay on) at different times, and the
\* delta loop that merges what was published.
InitSeen == InitWith(SeenMaxInputs)

NextSeen ==
    \/ now < SeenMaxTime /\ AdvanceClock
    \/ \E p \in Plugs : StartupFetch(p)
    \/ \E p \in WebPlugs, on \in BOOLEAN : WebToggle(p, on)
    \/ CmdFail
    \/ CmdSucceed
    \/ CmdPublishChanged
    \/ CmdPublishUpdate
    \/ \E p \in Plugs, power \in {"ON", ""} : MQTTPublish(p, power, NoReading)
    \/ DeltaMerge
    \/ DeltaPublish

SpecSeen == InitSeen /\ [][NextSeen]_vars

\* ------------------------------------------------------ closing SSE channels
\* HandleSSE in steps, with WebServer.Close. ssePc: "off" before the request,
\* "snapshot" and "stream" as above, "unregistered" once the deferred function
\* has deleted the channel from ws.sseClients, "closed" once it has called
\* close(clientChan). closes counts the calls of close on the client's channel.

\* The channel is in ws.sseClients: the handler has registered it and neither
\* its deferred function nor Close has taken it out.
Registered(c) == ssePc[c] \in {"snapshot", "stream"} /\ closes[c] = 0

closeUnchanged ==
    /\ UNCHANGED << now, states, ver, commands, pmQueue, hapQueue, hapOn, cmdPc,
                    cmdCtx, dlPc, dlCtx, startupPending, errorCount, published,
                    lastTouch, acked, nInputs >>
    /\ UNCHANGED supVars
    /\ UNCHANGED << connSeen, busCommands, toggleReply, hookLast, metricsSeen,
                    commandTotal, exited, pureVars >>
    /\ UNCHANGED << lockPc, lockHeld, blockedSends, busLog, sseSnap >>

\* The root context is cancelled.
CancelRoot ==
    /\ ~cancelled
    /\ cancelled' = TRUE
    /\ UNCHANGED << webQueue, webState, sseChan, ssePc, wsClosed, closes, sentOnClosed >>
    /\ closeUnchanged

\* WebServer.Close, deferred by Main and run once <-ctx.Done() has returned:
\* every channel in ws.sseClients is closed and the map is replaced.
WebClose ==
    /\ cancelled
    /\ ~wsClosed
    /\ wsClosed' = TRUE
    /\ closes' = [c \in Clients |-> IF Registered(c) THEN closes[c] + 1 ELSE closes[c]]
    /\ UNCHANGED << cancelled, webQueue, webState, sseChan, ssePc, sentOnClosed >>
    /\ closeUnchanged

\* processStateChanges with broadcastSSE over the channels in ws.sseClients.
WebBroadcast ==
    /\ webQueue # << >>
    /\ webState' = [webState EXCEPT ![Head(webQueue).plugID] = Head(webQueue)]
    /\ sseChan' = [c \in Clients |->
                      IF Registered(c) /\ Len(sseChan[c]) < SSECapacity
                      THEN Append(sseChan[c], Head(webQueue))
                      ELSE sseChan[c]]
    /\ webQueue' = Tail(webQueue)
    /\ UNCHANGED << cancelled, ssePc, wsClosed, closes, sentOnClosed >>
    /\ closeUnchanged

\* HandleSSE: the snapshot loop. A send on a channel that Close has closed
\* panics, also inside a select, and the deferred function runs.
SSESnapshotSend(c) ==
    /\ ssePc[c] = "snapshot"
    /\ IF closes[c] > 0 /\ snapshotState # << >>
       THEN /\ sentOnClosed' = [sentOnClosed EXCEPT ![c] = TRUE]
            /\ ssePc' = [ssePc EXCEPT ![c] = "unregistered"]
            /\ UNCHANGED sseChan
       ELSE /\ sseChan' = [sseChan EXCEPT ![c] = trySend(sseChan[c], snapshotState)]
            /\ ssePc' = [ssePc EXCEPT ![c] = "stream"]
            /\ UNCHANGED sentOnClosed
    /\ UNCHANGED << cancelled, webQueue, webState, wsClosed, closes >>
    /\ closeUnchanged

\* HandleSSE: the stream loop takes an event and writes its frame.
SSEStreamRead(c) ==
    /\ ssePc[c] = "stream"
    /\ sseChan[c] # << >>
    /\ sseChan' = [sseChan EXCEPT ![c] = Tail(sseChan[c])]
    /\ UNCHANGED << cancelled, webQueue, webState, ssePc, wsClosed, closes, sentOnClosed >>
    /\ closeUnchanged

\* HandleSSE returns (the request's context is done, the server's context is
\* done, or a write failed); the deferred function deletes the channel from
\* ws.sseClients under the lock.
SSEUnregister(c) ==
    /\ ssePc[c] = "stream"
    /\ ssePc' = [ssePc EXCEPT ![c] = "unregistered"]
    /\ UNCHANGED << cancelled, webQueue, webState, sseChan, wsClosed, closes, sentOnClosed >>
    /\ closeUnchanged

\* The deferred function's close(clientChan), after the unlock.
SSECloseChan(c) ==
    /\ ssePc[c] = "unregistered"
    /\ closes' = [closes EXCEPT ![c] = @ + 1]
    /\ ssePc' = [ssePc EXCEPT ![c] = "closed"]
    /\ UNCHANGED << cancelled, webQueue, webState, sseChan, wsClosed, sentOnClosed >>
    /\ closeUnchanged

InitClose == InitWith(CloseMaxInputs)

NextClose ==
    \/ \E p \in Plugs : StartupFetch(p)
    \/ WebBroadcast
    \/ \E c \in Clients : SSEConnect(c)
    \/ \E c \in Clients : SSESnapshotSend(c)
    \/ \E c \in Clients : SSEStreamRead(c)
    \/ \E c \in Clients : SSEUnregister(c)
    \/ \E c \in Clients : SSECloseChan(c)
    \/ CancelRoot
    \/ WebClose

SpecClose == InitClose /\ [][NextClose]_vars

\* ------------------------------------------------------- snapshot and stream
\* HandleSSE's snapshot in two steps: ws.snapshotState() returns the cached
\* events (ssePc "snapshotSend", the slice in sseSnap), then the loop sends
\* them. The channel is in ws.sseClients from the registration on.
orderUnchanged ==
    /\ UNCHANGED << now, states, ver, commands, pmQueue, hapQueue, webQueue,
                    hapOn, webState, cmdPc, cmdCtx, dlPc, dlCtx, startupPending,
                    errorCount, published, lastTouch, acked, nInputs >>
    /\ UNCHANGED supVars
    /\ UNCHANGED << connSeen, busCommands, toggleReply, hookLast, metricsSeen,
                    commandTotal, cancelled, exited, pureVars >>
    /\ UNCHANGED << lockPc, lockHeld, blockedSends, busLog, wsClosed, closes,
                    sentOnClosed >>

\* HandleSSE: ws.snapshotState() under the read lock of the cache.
SSESnapshotRead(c) ==
    /\ ssePc[c] = "snapshot"
    /\ sseSnap' = [sseSnap EXCEPT ![c] = snapshotState]
    /\ ssePc' = [ssePc EXCEPT ![c] = "snapshotSend"]
    /\ UNCHANGED sseChan
    /\ orderUnchanged

\* HandleSSE: the non-blocking sends of the snapshot's events.
SSESnapshotDeliver(c) ==
    /\ ssePc[c] = "snapshotSend"
    /\ sseChan' = [sseChan EXCEPT ![c] = trySend(sseChan[c], sseSnap[c])]
    /\ sseSnap' = [sseSnap EXCEPT ![c] = << >>]
    /\ ssePc' = [ssePc EXCEPT ![c] = "stream"]
    /\ orderUnchanged

\* One publisher, the command loop, so that the web adapter receives a
\* plug's events in the order of their versions.
InitOrder == InitWith(OrderMaxInputs)

NextOrder ==
    \/ \E p \in WebPlugs, on \in BOOLEAN : WebToggle(p, on)
    \/ CmdSucceed
    \/ CmdPublishChanged
    \/ CmdPublishUpdate
    \/ WebProcess
    \/ \E c \in Clients : SSEConnect(c)
    \/ \E c \in Clients : SSESnapshotRead(c)
    \/ \E c \in Clients : SSESnapshotDeliver(c)
    \/ \E c \in Clients : SSERead(c)

SpecOrder == InitOrder /\ [][NextOrder]_vars

NoErrors == \A p \in Plugs \cup {UnknownPlug} : errorCount[p] = 0

\* C1: for every plug enabled for HomeKit and the web, when the Command
\* channel and all queues are empty and no operation is in progress (and no
\* command failed), the accessory's On value, the on of the web adapter's
\* cached state for the plug and the manager's on are equal.
C1_ViewsAgree ==
    (Quiescent /\ NoErrors) =>
        \A p \in HomeKitPlugs \cap WebPlugs :
            /\ hapOn[p] = states[p].on
            /\ webState[p] # None => webState[p].on = states[p].on

\* C2: for one plug, StateUpdateEvents are published in the order of the
\* mutations they report: the mutation numbers in the published sequence
\* increase.
C2_PublishedInMutationOrder ==
    \A p \in Plugs :
        \A i, j \in 1..Len(published[p]) :
            i < j => published[p][i].ver < published[p][j].ver

Metrics(st) == << st.power, st.voltage, st.current, st.energy >>

\* C4: merging a StateChangedEvent changes only the fields the delta carries:
\* without a power state on is kept, without metrics the four metrics are kept.
C4_MergeChangesOnlyCarried ==
    [][DeltaMerge =>
          LET e == Head(pmQueue)
              p == e.plugID
          IN  /\ ("on" \notin e.carried /\ "all" \notin e.carried)
                    => states'[p].on = states[p].on
              /\ ("metrics" \notin e.carried /\ "all" \notin e.carried)
                    => Metrics(states'[p]) = Metrics(states[p])]_vars

\* C5: when the device call of a command fails, an ErrorEvent for the plug is
\* published, no field of any state changes and no StateUpdateEvent is
\* published for the command.
C5_FailedCommand ==
    [][CmdFail =>
          /\ errorCount' = [errorCount EXCEPT ![Head(commands).plugID] = @ + 1]
          /\ states' = states
          /\ published' = published
          /\ webQueue' = webQueue
          /\ pmQueue' = pmQueue
          /\ cmdPc' = "idle"]_vars

\* C5 witness: a command for a plug has failed after the plug's state left
\* its initial value.
C5_Witness ==
    \E p \in Plugs :
        /\ errorCount[p] > 0
        /\ cmdPc = "idle"
        /\ states[p] # NewState(1)

Sources(seq) == [i \in 1..Len(seq) |-> seq[i].source]

\* The inputs so far were exactly one command for p, acknowledged, and then
\* one MQTT message carrying the same power value; all events are processed.
CommandThenEcho(p) ==
    /\ nInputs + 2 = MaxInputs
    /\ ManagerIdle
    /\ NoErrors
    /\ lastTouch[p].kind = "ingest"
    /\ lastTouch[p].afterAck
    /\ \E i \in 1..Len(published[p]) :
          /\ published[p][i].source = "command"
          /\ published[p][i].on = lastTouch[p].on

\* C6: a successful command followed by one MQTT echo of the same value
\* publishes exactly two StateUpdateEvents for the plug, source "command"
\* first, then source "eventbus".
C6_CommandThenEcho ==
    \A p \in Plugs :
        CommandThenEcho(p) => Sources(published[p]) = << "command", "eventbus" >>

\* The calls and ErrorEvents of the ongoing check for p in the tick being
\* handled.
OngoingTrace(p) ==
    SelectSeq(tickCalls, LAMBDA c : c.plug = p /\ c.phase = "ongoing")

\* What the ongoing check of one tick may have done for p when it is through
\* with p: nothing, a failed get_status and the ErrorEvent, or a successful
\* get_status and one configure_mqtt.
OngoingComplete(p) ==
    { << >>,
      << Call(p, "ongoing", "status", FALSE), Call(p, "ongoing", "error", FALSE) >> }
    \cup { << Call(p, "ongoing", "status", TRUE), Call(p, "ongoing", "backlog", ok) >> :
              ok \in BOOLEAN }

\* C7: at a tick after the initial check, for every plug whose last_seen is
\* non-zero and more than 120 s old get_status is called, once; on success
\* configure_mqtt is issued exactly once for the plug in the tick, on failure
\* it is not issued and an ErrorEvent for the plug is published.
C7_OngoingCheck ==
    /\ [][\A p \in Plugs :
             (/\ SupOngoingVisit(p)
              /\ states[p].lastSeen # 0
              /\ now - states[p].lastSeen > ReconfigureAfter)
                => (supPc' = "ongoingStatus" /\ supCur' = p)]_vars
    /\ [][\A p \in Plugs :
             (supPc = "ongoingStatus" /\ supCur = p /\ supPc' # supPc)
                => /\ OngoingTrace(p) = << >>
                   /\ IF supPc' = "ongoingConfigure"
                      THEN /\ OngoingTrace(p)' = << Call(p, "ongoing", "status", TRUE) >>
                           /\ errorCount' = errorCount
                      ELSE /\ OngoingTrace(p)' =
                                << Call(p, "ongoing", "status", FALSE),
                                   Call(p, "ongoing", "error", FALSE) >>
                           /\ errorCount' = [errorCount EXCEPT ![p] = @ + 1]]_vars
    /\ [](\A p \in Plugs :
             (supPc = "idle" \/ (supPc = "ongoing" /\ p \notin supTodo))
                => OngoingTrace(p) \in OngoingComplete(p))

\* C7 witness: a tick's ongoing check is through, it called get_status for a
\* silent plug.
C7_Witness ==
    /\ supPc = "idle"
    /\ \E p \in Plugs :
          /\ Len(OngoingTrace(p)) = 2
          /\ states[p].lastSeen # 0

\* C8: a plug whose last_seen is still zero after the initial check is
\* attempted again on later ticks: when a later tick has been handled and the
\* plug's last_seen is zero, the tick made a device call for the plug.
C8_NeverSeenRetried ==
    \A p \in Plugs :
        (/\ supPc = "idle"
         /\ initialCheckDone
         /\ ~tickHadInitial
         /\ states[p].lastSeen = 0)
            => \E i \in 1..Len(tickCalls) : tickCalls[i].plug = p

\* Only on and lastUpdated of p differ between the states before and after.
Frame(p) ==
    /\ states'[p] = [states[p] EXCEPT !.on = states'[p].on,
                                      !.lastUpdated = states'[p].lastUpdated]
    /\ \A q \in Plugs \ {p} : states'[q] = states[q]

C10_UnknownPlugCommand ==
    [][CmdUnknownPlug =>
          /\ errorCount' = [errorCount EXCEPT ![Head(commands).plugID] = @ + 1]
          /\ states' = states
          /\ cmdPc' = "idle"]_vars

\* The power a response reports in one of the two accepted shapes, "" otherwise.
ReportedPower(r) ==
    IF r.http /\ r.json /\ r.status = "object" /\ r.statusPower \in {"ON", "OFF"}
    THEN r.statusPower
    ELSE IF r.http /\ r.json /\ r.status = "missing" /\ r.power \in {"ON", "OFF"}
    THEN r.power
    ELSE ""

\* C11: get_status sets on to true exactly when the response reports power
\* ON and to false exactly when it reports OFF, in the nested form and in the
\* top-level form.
C11_StatusSetsOn ==
    [][\A p \in Plugs, r \in Responses :
          (StartupFetch(p) /\ GetStatus(p, r) /\ ReportedPower(r) # "")
             => states'[p].on = (ReportedPower(r) = "ON")]_vars

\* C12: after the delta loop merges an ingest delta that carries energy
\* metrics but no power state, the metrics equal the delta's values and
\* last_seen equals the delta's last_seen.
C12_MetricsDeltaMerged ==
    [][DeltaMerge =>
          LET e == Head(pmQueue)
              p == e.plugID
          IN  (e.cause = "mqtt" /\ "metrics" \in e.carried /\ "on" \notin e.carried)
                 => /\ Metrics(states'[p]) = Metrics(e.state)
                    /\ states'[p].lastSeen = e.state.lastSeen]_vars

\* Position in the order connected, stale, disconnected.
Rank(c) == CASE c = "connected" -> 0 [] c = "stale" -> 1 [] OTHER -> 2

\* The delta loop publishes the update of an ingest merge itself.
IngestUpdatePublished ==
    dlPc = "publish" /\ dlCtx.cause = "mqtt" /\ dlPc' = "idle"

\* C13: while no ingest delta for a plug is merged, the connection_state of
\* the successive StateUpdateEvents for the plug never moves backwards in the
\* order connected, stale, disconnected (the update that reports the ingest
\* merge itself starts the sequence).
C13_ConnectionMonotone ==
    [][\A p \in Plugs :
          (/\ connSeen[p] # "none"
           /\ connSeen'[p] # "none"
           /\ ~IngestUpdatePublished)
             => Rank(connSeen[p]) <= Rank(connSeen'[p])]_vars

\* The classification of a last_seen that is age seconds old.
Classified(lastSeen, age) ==
    IF lastSeen = 0 THEN "disconnected"
    ELSE IF age < 30 THEN "connected"
    ELSE IF age < 60 THEN "stale"
    ELSE "disconnected"

\* C14: in StateUpdateEvents and in the dashboard indicator, zero last_seen
\* gives disconnected with note "Never seen"; an age below 30 s connected; from
\* exactly 30 s up to but excluding 60 s stale; exactly 60 s or more
\* disconnected.
C14_Classification ==
    /\ \A p \in Plugs :
          \A i \in 1..Len(published[p]) :
             LET u == published[p][i]
             IN  /\ u.connectionState =
                       Classified(u.lastSeen, (u.timestamp - u.lastSeen) * TickSeconds)
                 /\ (u.lastSeen = 0) <=> (u.connectionNote = "Never seen")
    /\ \A p \in Plugs :
          LET card == connectionIndicator(states[p].lastSeen, now)
          IN  /\ card[1] = Classified(states[p].lastSeen,
                                      (now - states[p].lastSeen) * TickSeconds)
              /\ (states[p].lastSeen = 0) <=> (card[2] = "Never seen")

\* C14 witness: an update was published exactly 30 s after the plug was last
\* seen, the card is rendered exactly 60 s after, and another plug was never
\* seen.
C14_Witness ==
    \E p, q \in Plugs :
        /\ states[p].lastSeen # 0
        /\ now - states[p].lastSeen = 2
        /\ \E i \in 1..Len(published[p]) :
              /\ published[p][i].lastSeen # 0
              /\ published[p][i].timestamp - published[p][i].lastSeen = 1
        /\ states[q].lastSeen = 0
        /\ published[q] # << >>

Last(seq) == seq[Len(seq)]

\* One command for p with value on was put on the channel and one
\* CommandEvent with that source, plug and value was published.
OneCommandFrom(source, p, on) ==
    /\ Len(commands') = Len(commands) + 1
    /\ SubSeq(commands', 1, Len(commands)) = commands
    /\ Last(commands').plugID = p
    /\ Last(commands').on = on
    /\ Len(busCommands') = Len(busCommands) + 1
    /\ SubSeq(busCommands', 1, Len(busCommands)) = busCommands
    /\ Last(busCommands').source = source
    /\ Last(busCommands').plugID = p
    /\ Last(busCommands').on = on

C19_RejectedToggleSendsNothing ==
    /\ [][\A p \in Plugs \cup {UnknownPlug} :
             HandleToggleRejected(p) =>
                 /\ toggleReply'.status = 404
                 /\ toggleReply'.plugID = p
                 /\ commands' = commands
                 /\ busCommands' = busCommands]_vars
    /\ [](\A i \in 1..Len(busCommands) :
             busCommands[i].source = "web" => busCommands[i].plugID \in WebPlugs)

\* C19 witness: a toggle for the unknown plug or the web-disabled plug was
\* rejected after another command had been accepted.
C19_Witness ==
    /\ toggleReply.status = 404
    /\ toggleReply.plugID \in {UnknownPlug} \cup (Plugs \ WebPlugs)
    /\ busCommands # << >>

\* C18: the HAP adapter writes an accessory's On only in response to a
\* StateUpdateEvent and with that event's on (so a StateUpdateEvent for the
\* plug with the written value has been published), and an ingest delta that
\* carries no power state leaves every accessory's On as it was.
C18_HAPWritesAuthoritativeOnly ==
    [][HAPProcess =>
          LET e == Head(hapQueue)
          IN  /\ (e.cause = "mqtt" /\ "on" \notin e.carried) => hapOn' = hapOn
              /\ \A p \in HomeKitPlugs :
                    hapOn'[p] # hapOn[p] =>
                        \E i \in 1..Len(published[p]) :
                            published[p][i].on = hapOn'[p]]_vars

\* C15: broadcasting a StateUpdateEvent never blocks on an SSE client (the
\* web adapter can always take the next event), an event is dropped only for
\* a client whose queue is full, and every other registered client gets the
\* event appended to its queue, behind the earlier ones.
C15_BroadcastNeverBlocks ==
    /\ [](webQueue # << >> => ENABLED WebProcess)
    /\ [][WebProcess =>
             \A c \in Clients :
                 ssePc[c] # "off" =>
                     IF Len(sseChan[c]) < SSECapacity
                     THEN sseChan'[c] = Append(sseChan[c], Head(webQueue))
                     ELSE sseChan'[c] = sseChan[c]]_vars

\* C15 witness: one client's queue is full and another client holds a later
\* event for the same plug, one the full queue did not get.
C15_Witness ==
    \E c, d \in Clients :
        /\ Len(sseChan[c]) = SSECapacity
        /\ ssePc[d] = "stream"
        /\ sseChan[d] # << >>
        /\ Last(sseChan[d]).plugID = Last(sseChan[c]).plugID
        /\ Last(sseChan[d]).ver >= Last(sseChan[c]).ver
        /\ \A i \in 1..Len(sseChan[c]) : sseChan[c][i] # Last(sseChan[d])

\* C16: the snapshot loop of a connecting SSE client puts one event in the
\* client's queue for every plug that has a cached StateUpdateEvent, so the
\* client is sent a frame for each of them.
C16_SnapshotComplete ==
    [][\A c \in Clients :
          SSESnapshot(c) =>
              \A p \in Plugs :
                  webState[p] # None =>
                      \E i \in 1..Len(sseChan'[c]) : sseChan'[c][i].plugID = p]_vars

\* C20: for every inbound publish on a tele/... or stat/... topic with at
\* least three segments, the hook publishes exactly one StateChangedEvent for
\* the plug named by the third segment, with last_seen = now and
\* mqtt_connected = true; when the payload is not JSON or carries no power
\* state the event carries no power-state change.
C20_IngestAlwaysPublishes ==
    [][\A prefix \in {"tele", "stat"}, nseg \in {3, 4}, third \in Plugs,
          payload \in Payloads :
          OnPublish(prefix, nseg, third, payload) =>
              /\ Len(pmQueue') = Len(pmQueue) + 1
              /\ Last(pmQueue').plugID = third
              /\ Last(pmQueue').state.lastSeen = now
              /\ Last(pmQueue').state.mqttConnected
              /\ powerState(payload) = "" => Last(pmQueue').state.lastUpdated = 0]_vars

\* C21: the ingest maps a POWER value of "ON", at top level or under
\* StatusSTS, to on = true and of "OFF" to on = false; any other POWER value
\* gives no power state, and the plug's on is not changed by the message.
C21_PowerMapping ==
    [][\A prefix \in {"tele", "stat"}, nseg \in {3, 4}, third \in Plugs,
          payload \in Payloads :
          OnPublish(prefix, nseg, third, payload) =>
              /\ payload \in {"POWER_ON", "STS_ON"} =>
                     states'[third].on /\ Last(pmQueue').state.on
              /\ payload \in {"POWER_OFF", "STS_OFF"} =>
                     ~states'[third].on /\ ~Last(pmQueue').state.on
              /\ payload \in {"POWER_OTHER", "STS_OTHER"} =>
                     states'[third].on = states[third].on]_vars

\* C22: applying the same StateChangedEvent to a plug's state twice in a row
\* yields the same state as applying it once: merging the event the delta loop
\* has just merged into the resulting state changes nothing.
C22_MergeIdempotent ==
    [][DeltaMerge =>
          LET e == Head(pmQueue)
          IN  MergeDelta(states'[e.plugID], e.state) = states'[e.plugID]]_vars

\* C22 witness: the delta loop has just merged, for the second time in a row,
\* an ingest event that carries a power state and readings (hapQueue keeps
\* every StateChangedEvent published so far).
C22_Witness ==
    LET n == Len(hapQueue) - Len(pmQueue)
    IN  /\ dlPc = "publish"
        /\ n >= 2
        /\ hapQueue[n] = hapQueue[n - 1]
        /\ hapQueue[n].cause = "mqtt"
        /\ hapQueue[n].state.on
        /\ hapQueue[n].state.energy > 0
        /\ states[hapQueue[n].plugID] = MergeDelta(NewState(1), hapQueue[n].state)

\* The label value C23 expects for a field of a CommandEvent.
LabelOf(x) == IF x = "" THEN "unknown" ELSE x

\* C23: each CommandEvent received by the metrics observer increments
\* command_total exactly once, for the event's (source, plug_id, command_type)
\* with "unknown" in place of an empty label, and changes no other counter:
\* every counter equals the number of received events with its labels.
C23_CommandCounted ==
    /\ [][ConsumeCommand =>
             LET evt == busCommands[metricsSeen + 1]
                 l   == << LabelOf(evt.source), LabelOf(evt.plugID),
                           LabelOf(evt.commandType) >>
             IN  /\ commandTotal'[l] = commandTotal[l] + 1
                 /\ \A k \in LabelSets \ {l} : commandTotal'[k] = commandTotal[k]]_vars
    /\ [](\A l \in LabelSets :
             commandTotal[l] =
                 Cardinality({ i \in 1..metricsSeen :
                                 << LabelOf(busCommands[i].source),
                                    LabelOf(busCommands[i].plugID),
                                    LabelOf(busCommands[i].commandType) >> = l }))

\* C23 witness: the collector has counted three events, among them a web
\* toggle and an event without any label.
C23_Witness ==
    /\ metricsSeen = 3
    /\ commandTotal[<< "web", "p1", "set_power" >>] >= 1
    /\ commandTotal[<< "unknown", "unknown", "unknown" >>] >= 1

\* A loop takes the next event, command or tick from its select.
TakesEvent ==
    \/ CmdUnknownPlug
    \/ CmdFail
    \/ CmdSucceed
    \/ DeltaMerge
    \/ SupTick
    \/ HAPProcess
    \/ WebProcess
    \/ ConsumeCommand
    \/ \E c \in Clients : SSERead(c)

\* C24: after the root cancellation signal every loop terminates at its next
\* suspension point: no loop takes another event, command or tick from its
\* select once the context is done.
C24_LoopsStopAtNextSuspension ==
    [][cancelled => ~TakesEvent]_vars

\* C25: values returned by Snapshot() and Plug() share nothing with the
\* store: an assignment through anything reachable from a returned value
\* leaves what a later read returns (the plug's state and the bools its
\* HomeKit and Web point to) as it was, and a store mutation leaves every
\* returned value, with the bools it points to, as it was.
C25_ReturnedValuesDetached ==
    [][/\ CallerWrite =>
              \A p \in Plugs : states'[p] = states[p] /\ heap'[p] = heap[p]
       /\ (\E p \in Plugs : StartupFetch(p)) =>
              /\ returned' = returned
              /\ \A i \in 1..Len(returned) :
                     \A q \in DOMAIN returned[i].config :
                         heap'[returned[i].config[q]] = heap[returned[i].config[q]]]_vars

\* C26: for a fixed plug configuration each plug's accessory id is the same in
\* every run of the program, whatever the order in which the accessories are
\* collected.
C26_AccessoryIdStable ==
    \A r1, r2 \in 1..Len(hapRuns) :
        \A i \in 2..Len(hapRuns[r1]), j \in 2..Len(hapRuns[r2]) :
            hapRuns[r1][i].serial = hapRuns[r2][j].serial =>
                hapRuns[r1][i].id = hapRuns[r2][j].id

\* C27: the accessory list is the bridge first, followed by exactly one
\* accessory for each plug with HomeKit enabled (a Lightbulb for type bulb, an
\* Outlet otherwise), no accessory for a plug with HomeKit disabled, and
\* nothing else.
C27_AccessoryList ==
    \A r \in 1..Len(hapRuns) :
        LET list == hapRuns[r]
        IN  /\ list[1].kind = "Bridge"
            /\ \A i \in 2..Len(list) :
                   /\ list[i].kind # "Bridge"
                   /\ \E k \in 1..Len(hapPlugs) : hapPlugs[k].id = list[i].serial
            /\ \A k \in 1..Len(hapPlugs) :
                   LET plug == hapPlugs[k]
                       its  == { i \in 2..Len(list) : list[i].serial = plug.id }
                   IN  IF plug.homekit = "false"
                       THEN its = {}
                       ELSE /\ Cardinality(its) = 1
                            /\ \A i \in its :
                                   list[i].kind = IF plug.type = "bulb"
                                                  THEN "Lightbulb" ELSE "Outlet"

\* C27 witness: a list of the bridge, a Lightbulb and an Outlet was built for
\* three plugs, one of them with HomeKit disabled and one without the key.
C27_Witness ==
    /\ Len(hapPlugs) = 3
    /\ \E k \in 1..3 : hapPlugs[k].homekit = "false"
    /\ \E k \in 1..3 : hapPlugs[k].homekit = "absent"
    /\ hapRuns # << >>
    /\ Len(hapRuns[1]) = 3
    /\ \E i \in 2..3 : hapRuns[1][i].kind = "Lightbulb"
    /\ \E i \in 2..3 : hapRuns[1][i].kind = "Outlet"

\* C28: LoadConfig accepts a file exactly when it has at least one plug, a
\* non-empty id, name and address for every plug and pairwise distinct ids;
\* the accepted configuration has the file's plugs with homekit and web set to
\* true wherever the file omitted them and as written elsewhere.
C28_AcceptedConfigValid ==
    loadIn # NoFile =>
        LET n == Len(loadIn.plugs)
            valid ==
                /\ loadIn.kind = "json"
                /\ n >= 1
                /\ \A i \in 1..n :
                       /\ loadIn.plugs[i].id # ""
                       /\ loadIn.plugs[i].name # ""
                       /\ loadIn.plugs[i].address # ""
                /\ \A i, j \in 1..n : i # j => loadIn.plugs[i].id # loadIn.plugs[j].id
        IN  /\ loadOut.ok <=> valid
            /\ loadOut.ok =>
                   /\ Len(loadOut.plugs) = n
                   /\ \A i \in 1..n :
                          /\ loadOut.plugs[i].id = loadIn.plugs[i].id
                          /\ loadOut.plugs[i].name = loadIn.plugs[i].name
                          /\ loadOut.plugs[i].address = loadIn.plugs[i].address
                          /\ loadOut.plugs[i].homekit = (loadIn.plugs[i].homekit # "false")
                          /\ loadOut.plugs[i].web = (loadIn.plugs[i].web # "false")

\* C28 witness: a file with two plugs was accepted, one of them without the
\* homekit and web keys, the other with homekit set to false.
C28_Witness ==
    /\ loadIn # NoFile
    /\ loadOut.ok
    /\ Len(loadOut.plugs) = 2
    /\ loadIn.plugs[1].homekit = "absent"
    /\ loadIn.plugs[1].web = "absent"
    /\ loadOut.plugs[1].homekit
    /\ loadOut.plugs[1].web
    /\ loadIn.plugs[2].homekit = "false"
    /\ ~loadOut.plugs[2].homekit

\* C29: every environment accepted by Validate has the ports its HAP, web and
\* MQTT listeners will bind in [1, 65535], whether the port comes from the
\* *_PORT variable or from the *_ADDR override.
C29_AcceptedPortsInRange ==
    (envIn # NoEnv /\ envOut.ok) =>
        /\ envOut.hap \in MinPort..MaxPort
        /\ envOut.web \in MinPort..MaxPort
        /\ envOut.mqtt \in MinPort..MaxPort

\* C30: whenever a device call of the supervisor fails, in the initial or the
\* ongoing check, ConfigureMQTT and GetStatus alike, an ErrorEvent for that
\* plug is published in the same step.
C30_FailureAlwaysPublishesError ==
    [][\A i \in (Len(tickCalls) + 1)..Len(tickCalls') :
          (tickCalls'[i].call \in {"backlog", "status"} /\ ~tickCalls'[i].ok) =>
              errorCount'[tickCalls'[i].plug] = errorCount[tickCalls'[i].plug] + 1]_vars

\* C31: when the liveness supervisor finds a plug silent beyond its threshold,
\* that plug's mqtt_connected is false from that step on (until an ingest
\* delta for the plug is merged).
C31_SilentPlugMarkedDisconnected ==
    [][\A p \in Plugs :
          (SupOngoingVisit(p) /\ SilentTooLong(states[p], now)) =>
              ~states'[p].mqttConnected]_vars

\* C32: after a HomeKit write whose device command failed, once the next
\* successful status fetch for that plug has been processed (nothing else is
\* in progress or queued), the accessory's On value equals the manager's
\* authoritative on.
C32_FailedWriteCorrected ==
    [][\A p \in HomeKitPlugs :
          (/\ StartupFetch(p)
           /\ Quiescent
           /\ errorCount[p] > 0
           /\ hapOn[p] # states[p].on
           /\ ver'[p] > ver[p]) =>
              hapOn'[p] = states'[p].on]_vars

\* C33: every mutation of a plug's authoritative state by the manager
\* (command success, status fetch in either response form, merged delta) is
\* followed by a StateUpdateEvent carrying the state after that mutation:
\* once the manager has nothing left to do, each mutation applied to a plug
\* has its event among the published ones, with the state the mutation left.
C33_EveryMutationPublished ==
    ManagerIdle =>
        \A p \in Plugs :
            \A v \in 1..ver[p] :
                \E i \in 1..Len(published[p]) : published[p][i].ver = v

\* C34: the MQTT ingest hook never writes a plug's state itself: a call of
\* the hook leaves the store as it was, and every change of authoritative
\* state caused by an MQTT message is made by the delta loop's merge.
C34_HookLeavesStore ==
    [][\A prefix \in TopicPrefixes, nseg \in SegmentCounts, third \in ThirdSegments,
          payload \in Payloads :
          OnPublish(prefix, nseg, third, payload) => states' = states]_vars

\* C35: no task holds the state-store lock or the SSE client-set lock while
\* it waits on a device HTTP call, a subscriber queue, the Command channel,
\* a ticker, its SSE channel or a network write to a client.
C35_NoLockAcrossWait ==
    \A t \in LockTasks : AtStep(t).op = "wait" => lockHeld[t] = {}

\* C35 witness: the supervisor waits on a device call and the SSE handler on
\* its write to the client while the delta loop holds the store lock and the
\* web adapter's loop holds the client-set lock.
C35_Witness ==
    /\ AtStep("supervisor") = WaitStep("http", {16, 20})
    /\ AtStep("sse").what = "write"
    /\ << "store", "w" >> \in lockHeld["delta"]
    /\ << "clients", "r" >> \in lockHeld["web"]

C37_DuplicateNameFails ==
    \A i \in 1..Len(busLog) : busLog[i].duplicate => ~busLog[i].ok

\* C38: a plug's last_seen never decreases, whatever commands, status
\* fetches and merged StateChangedEvents follow one another.
C38_LastSeenNeverDecreases ==
    [][\A p \in Plugs : states'[p].lastSeen >= states[p].lastSeen]_vars

\* C39: each SSE client channel is closed at most once and no event is sent
\* on a channel after it has been closed.
C39_ClosedOnceNoSendAfter ==
    \A c \in Clients : closes[c] <= 1 /\ ~sentOnClosed[c]

\* C40: for each SSE client and each plug, the frames queued for the client
\* are in the order the web adapter received the events: no frame for a plug
\* follows a frame for a newer event of the same plug.
C40_FramesInEventOrder ==
    \A c \in Clients :
        \A i, j \in 1..Len(sseChan[c]) :
            (i < j /\ sseChan[c][i].plugID = sseChan[c][j].plugID) =>
                sseChan[c][i].ver <= sseChan[c][j].ver

====
